---------------------------- MODULE Spec2Model ----------------------------
(***************************************************************************)
(* A state-machine model of Spack's binary build cache,                    *)
(* lib/spack/spack/binary_distribution.py:                                 *)
(*   - build_tarball   (packaging and publishing to a mirror),             *)
(*   - extract_tarball (verification and installation of a bundle),        *)
(*   - needs_rebuild / check_specs_against_mirrors (staleness check).      *)
(* Every function is cut into steps at its calls to the outside world      *)
(* (mirror, file system, gpg), one action per step.                        *)
(***************************************************************************)
EXTENDS Integers, Sequences, FiniteSets, TLC

(***************************************************************************)
(* Bounds of the model.                                                    *)
(***************************************************************************)
NumFiles == 2
NumKeys == 2
NumHashes == 2
NumMirrors == 2
NumSpecs == 2

\* .spack/binary_distribution, the manifest written into the working copy
BuildinfoFile == 0

Files == 1..NumFiles
Trees == (SUBSET Files) \ {{}}
Keys == 1..NumKeys
Hashes == 1..NumHashes
Procs == {1, 2}
Roots == {<<"opt">>, <<"home", "spack">>}
RelPrefixes == {<<"linux", "zlib">>, <<"zlib">>}

(***************************************************************************)
(* Files and dictionaries.  A Python dict is a function whose DOMAIN is    *)
(* the set of its keys; a path is the sequence of its components.          *)
(***************************************************************************)
None == [present |-> FALSE]
File(c) == [present |-> TRUE, body |-> c]
EmptyDict == <<>>

HasKey(d, k) == k \in DOMAIN d

DictGet(d, k, default) == IF HasKey(d, k) THEN d[k] ELSE default

Min(S) == CHOOSE x \in S : \A y \in S : x <= y

RECURSIVE CommonLen(_, _)
CommonLen(a, b) ==
    IF a = <<>> \/ b = <<>> \/ Head(a) # Head(b) THEN 0
    ELSE 1 + CommonLen(Tail(a), Tail(b))

\* os.path.relpath(path, start): ".." for every component of start below
\* the common ancestor, then the rest of path
relpath(path, start) ==
    LET c == CommonLen(path, start)
    IN [i \in 1..(Len(start) - c) |-> ".."] \o SubSeq(path, c + 1, Len(path))

\* the directory layout: the install prefix of the spec under a root
PrefixOf(h) == h.root \o h.rel

(***************************************************************************)
(* Tarballs.  An install tree is the set of its files; a tarball is the    *)
(* sequence of its members, written in sorted order and read back as a     *)
(* set.                                                                    *)
(***************************************************************************)
RECURSIVE TarAdd(_)
TarAdd(tree) ==
    IF tree = {} THEN <<>>
    ELSE LET m == Min(tree) IN <<m>> \o TarAdd(tree \ {m})

TarExtractAll(tar) == {tar[i] : i \in DOMAIN tar}

HashBase == NumFiles + 2

RECURSIVE HasherUpdate(_, _)
HasherUpdate(h, buf) ==
    IF buf = <<>> THEN h
    ELSE HasherUpdate(h * HashBase + Head(buf) + 1, Tail(buf))

\* the digest of the tarball's bytes, read block after block
checksum_tarball(file) == HasherUpdate(0, file)

(***************************************************************************)
(* gpg: a detached signature names its key and the document signed; it     *)
(* verifies against a document when the key is trusted and the document    *)
(* is the one that was signed.                                             *)
(***************************************************************************)
GpgSign(key, doc) == [key |-> key, doc |-> doc]

GpgVerify(sig, doc, trusted) == sig.key \in trusted /\ sig.doc = doc

(***************************************************************************)
(* State.                                                                  *)
(*   host    the local store: layout root, the spec's path below it, the   *)
(*           spec's install tree and full hash                             *)
(*   mirror  the remote build cache of one mirror: .spack archive,         *)
(*           .spec.yaml metadata file, index.html                          *)
(*   bt      build_tarball, one record per running process                 *)
(*   target, prefix, xt   extract_tarball (described with its actions)     *)
(*   ck      check_specs_against_mirrors (described with its actions)      *)
(*   dl      download_tarball (described with its actions)                 *)
(*   gs      get_specs and the module's cache (described with its actions) *)
(*   sg      sign_tarball called on its own (described with its action)    *)
(***************************************************************************)
VARIABLES host, mirror, bt, target, prefix, xt, ck, dl, gs, sg, rp, ix, be

buildVars == <<host, mirror, bt>>

extractVars == <<target, prefix, xt>>

rebuildVars == <<ck>>

fetchVars == <<dl, gs>>

signVars == <<sg>>

\* relocate_package, generate_package_index, download_buildcache_entry
utilVars == <<rp, ix, be>>

vars == <<host, mirror, bt, target, prefix, xt, ck, dl, gs, sg, rp, ix, be>>

PriorMeta ==
    [binary_cache_checksum |-> [hash_algorithm |-> "sha256", hash |-> 0],
     full_hash |-> 0]
PriorBundle == [payload |-> <<>>, meta |-> PriorMeta, sig |-> None]
\* what a mirror holds from an earlier publication (by = 0)
PriorArchive == [present |-> TRUE, by |-> 0, body |-> PriorBundle]
PriorSpecfile == [present |-> TRUE, by |-> 0, body |-> PriorMeta]

NoKeyArg == 0

BuildCalls ==
    [force : BOOLEAN, rel : BOOLEAN, unsigned : BOOLEAN,
     allow_root : BOOLEAN, key : {NoKeyArg} \cup Keys,
     regenerate_index : BOOLEAN, concrete : BOOLEAN]

BtIdle ==
    [pc |-> "idle", call |-> [force |-> FALSE, rel |-> FALSE,
                              unsigned |-> FALSE, allow_root |-> FALSE,
                              key |-> NoKeyArg, regenerate_index |-> FALSE,
                              concrete |-> FALSE],
     tmpdir |-> FALSE, tarfile_dir |-> FALSE, scratch |-> FALSE,
     workdir |-> None, buildinfo |-> None, relocated |-> {},
     tarfile |-> None,
     specfile |-> None, ascfile |-> None, spackfile |-> None,
     live0 |-> [tree |-> {}, rewritten |-> {}],
     remote0 |-> [archive |-> None, specfile |-> None],
     queries |-> <<>>, seen |-> <<>>, remote_ops |-> <<>>,
     result |-> "none"]

\* the call has been made and nothing of it has run
BtStart(call, m) ==
    [BtIdle EXCEPT !.pc = "start", !.call = call,
                   !.live0 = [tree |-> host.tree,
                              rewritten |-> host.rewritten],
                   !.remote0 = [archive |-> m.archive,
                                specfile |-> m.specfile]]

Hosts ==
    [root : Roots, rel : RelPrefixes, tree : Trees, full_hash : Hashes,
     rewritten : {{}}]

Mirrors0 ==
    [archive : {None, PriorArchive}, specfile : {None, PriorSpecfile},
     index : {None}]


(***************************************************************************)
(* build_tarball(spec, outdir, force, rel, unsigned, allow_root, key,      *)
(*               regenerate_index)                                         *)
(***************************************************************************)
BtSet(p, rec) == bt' = [bt EXCEPT ![p] = rec]

BtRaise(p, rec, exc) == BtSet(p, [rec EXCEPT !.pc = "done", !.result = exc])

url_exists(remote) == remote.present

\* the overwrite guard on one remote file: what the call does with it
GuardOutcome_NoForceCheck(exists, force) ==
    IF exists THEN "remove" ELSE "pass"

GuardOutcome(exists, force) ==
    IF exists
    THEN IF force THEN "remove" ELSE "raise"
    ELSE "pass"

\* build_tarball without the validation of its spec
BuildValidate_Skipped(p) ==
    /\ bt[p].pc = "start"
    /\ BtSet(p, [bt[p] EXCEPT !.pc = "setup"])
    /\ UNCHANGED <<host, mirror, extractVars, rebuildVars, fetchVars, signVars, utilVars>>

\* if not spec.concrete: raise ValueError
BuildValidate(p) ==
    /\ bt[p].pc = "start"
    /\ IF ~bt[p].call.concrete
       THEN BtRaise(p, bt[p], "ValueError")
       ELSE BtSet(p, [bt[p] EXCEPT !.pc = "setup"])
    /\ UNCHANGED <<host, mirror, extractVars, rebuildVars, fetchVars, signVars, utilVars>>

\* tmpdir = tempfile.mkdtemp() ... mkdirp(tarfile_dir)
BuildSetup(p) ==
    /\ bt[p].pc = "setup"
    /\ BtSet(p, [bt[p] EXCEPT !.pc = "guard_archive", !.tmpdir = TRUE,
                              !.tarfile_dir = TRUE])
    /\ UNCHANGED <<host, mirror, extractVars, rebuildVars, fetchVars, signVars, utilVars>>

\* one overwrite guard: url_exists, then remove_url under force (a call that
\* the transport may fail) or NoOverwriteException
BuildGuard(p, field, next) ==
    LET g == GuardOutcome(url_exists(mirror[field]), bt[p].call.force)
        asked == [bt[p] EXCEPT
                     !.queries = Append(@, field),
                     !.seen = Append(@, url_exists(mirror[field]))]
        ops == Append(bt[p].remote_ops, <<"remove_url", field>>)
    IN CASE g = "pass" ->
              /\ BtSet(p, [asked EXCEPT !.pc = next])
              /\ UNCHANGED mirror
         [] g = "raise" ->
              /\ BtRaise(p, asked, "NoOverwriteException")
              /\ UNCHANGED mirror
         [] g = "remove" ->
              \E ok \in BOOLEAN :
                 IF ok
                 THEN /\ mirror' = [mirror EXCEPT ![field] = None]
                      /\ BtSet(p, [asked EXCEPT !.pc = next,
                                                !.remote_ops = ops])
                 ELSE /\ UNCHANGED mirror
                      /\ BtRaise(p, [asked EXCEPT !.remote_ops = ops],
                                 "RemoteError")

BuildGuardArchive(p) ==
    /\ bt[p].pc = "guard_archive"
    /\ BuildGuard(p, "archive", "guard_specfile")
    /\ UNCHANGED <<host, extractVars, rebuildVars, fetchVars, signVars, utilVars>>

\* the call without its second guard
BuildGuardSpecfile_Skipped(p) ==
    /\ bt[p].pc = "guard_specfile"
    /\ BtSet(p, [bt[p] EXCEPT !.pc = "copy"])
    /\ UNCHANGED <<host, mirror, extractVars, rebuildVars, fetchVars,
                   signVars, utilVars>>

BuildGuardSpecfile(p) ==
    /\ bt[p].pc = "guard_specfile"
    /\ BuildGuard(p, "specfile", "copy")
    /\ UNCHANGED <<host, extractVars, rebuildVars, fetchVars, signVars, utilVars>>

\* workdir = os.path.join(tempfile.mkdtemp(), ...); install_tree(...)
BuildCopyTree(p) ==
    /\ bt[p].pc = "copy"
    /\ BtSet(p, [bt[p] EXCEPT !.pc = "buildinfo", !.scratch = TRUE,
                              !.workdir = File(host.tree)])
    /\ UNCHANGED <<host, mirror, extractVars, rebuildVars, fetchVars, signVars, utilVars>>

\* the manifest write_buildinfo_file computes from the original prefix
BuildinfoOf(h, rel) ==
    [relative_rpaths |-> rel, buildpath |-> h.root,
     relative_prefix |-> relpath(PrefixOf(h), h.root)]

\* a path is the directory dir or lies below it
IsUnder(path, dir) ==
    /\ Len(dir) <= Len(path)
    /\ SubSeq(path, 1, Len(dir)) = dir

\* workdir = os.path.join(tempfile.mkdtemp(), os.path.basename(spec.prefix))
workdir_path(h) ==
    <<"tmp", "mkdtemp", PrefixOf(h)[Len(PrefixOf(h))]>>

\* <prefix>/.spack/binary_distribution
buildinfo_file_name(dir) ==
    dir \o <<".spack", "binary_distribution">>

\* the manifest written into the installed prefix
BuildinfoTarget_InPrefix(spec_prefix, workdir) ==
    buildinfo_file_name(spec_prefix)

\* write_buildinfo_file(prefix, workdir, rel): filename =
\* buildinfo_file_name(workdir)
BuildinfoTarget(spec_prefix, workdir) ==
    buildinfo_file_name(workdir)

\* the files make_package_relative / make_package_placeholder hand to the
\* relocation routines as the ones to modify
cur_path_names(workdir, filenames) ==
    {workdir \o <<f>> : f \in filenames}

\* the names of the files of a set of paths that lie below a directory
NamesUnder(paths, dir) ==
    {q[Len(q)] : q \in {r \in paths : IsUnder(r, dir)}}

\* write_buildinfo_file(spec.prefix, workdir, rel=rel)
BuildWriteBuildinfo(p) ==
    /\ bt[p].pc = "buildinfo"
    /\ LET filename == BuildinfoTarget(PrefixOf(host), workdir_path(host))
       IN  /\ BtSet(p, [bt[p] EXCEPT
                  !.pc = "relocate",
                  !.workdir =
                      IF IsUnder(filename, workdir_path(host))
                      THEN File(bt[p].workdir.body \cup {BuildinfoFile})
                      ELSE @,
                  !.buildinfo = File(BuildinfoOf(host, bt[p].call.rel))])
           /\ host' = IF IsUnder(filename, PrefixOf(host))
                      THEN [host EXCEPT !.tree = @ \cup {BuildinfoFile}]
                      ELSE host
    /\ UNCHANGED <<mirror, extractVars, rebuildVars, fetchVars, signVars, utilVars>>

\* the relocation step dying without removing what the call created
BuildRelocate_NoCleanup(p) ==
    /\ bt[p].pc = "relocate"
    /\ \E ok \in BOOLEAN :
          IF ok
          THEN BtSet(p, [bt[p] EXCEPT !.pc = "tar"])
          ELSE BtRaise(p, bt[p], "die")
    /\ UNCHANGED <<host, mirror, extractVars, rebuildVars, fetchVars,
                   signVars, utilVars>>

\* make_package_relative / make_package_placeholder rewrite the files of
\* cur_path_names; on any exception the working copy, tarfile_dir and
\* tmpdir are removed and the process dies
BuildRelocate(p) ==
    /\ bt[p].pc = "relocate"
    /\ LET written == cur_path_names(workdir_path(host), host.tree)
       IN  /\ \E ok \in BOOLEAN :
                 IF ok
                 THEN BtSet(p, [bt[p] EXCEPT
                          !.pc = "tar",
                          !.relocated =
                              NamesUnder(written, workdir_path(host))])
                 ELSE BtRaise(p, [bt[p] EXCEPT !.workdir = None,
                                               !.buildinfo = None,
                                               !.tarfile_dir = FALSE,
                                               !.tmpdir = FALSE], "die")
           /\ host' = [host EXCEPT
                  !.rewritten = @ \cup NamesUnder(written, PrefixOf(host))]
    /\ UNCHANGED <<mirror, extractVars, rebuildVars, fetchVars, signVars, utilVars>>

\* tar.add(workdir); shutil.rmtree(workdir).  The tarball holds the
\* members of the working copy, and with the member BuildinfoFile its
\* content, the manifest.
BuildTar(p) ==
    /\ bt[p].pc = "tar"
    /\ BtSet(p, [bt[p] EXCEPT
           !.pc = "specfile",
           !.tarfile = [present |-> TRUE,
                        body |-> TarAdd(bt[p].workdir.body),
                        manifest |-> bt[p].buildinfo.body],
           !.workdir = None, !.buildinfo = None])
    /\ UNCHANGED <<host, mirror, extractVars, rebuildVars, fetchVars, signVars, utilVars>>

\* the spec.yaml with the checksum of an empty tarball recorded
SpecDictOf_StaleChecksum(h, checksum) ==
    [binary_cache_checksum |->
         [hash_algorithm |-> "sha256", hash |-> checksum_tarball(<<>>)],
     buildinfo |-> [relative_prefix |-> relpath(PrefixOf(h), h.root)],
     full_hash |-> h.full_hash]

\* the spec.yaml written beside the tarball: checksum, relative prefix and
\* full hash added to the spec's own metadata
SpecDictOf(h, checksum) ==
    [binary_cache_checksum |->
         [hash_algorithm |-> "sha256", hash |-> checksum],
     buildinfo |-> [relative_prefix |-> relpath(PrefixOf(h), h.root)],
     full_hash |-> h.full_hash]

BuildSpecfile(p) ==
    /\ bt[p].pc = "specfile"
    /\ BtSet(p, [bt[p] EXCEPT
           !.pc = "sign",
           !.specfile =
               File(SpecDictOf(host, checksum_tarball(bt[p].tarfile.body)))])
    /\ UNCHANGED <<host, mirror, extractVars, rebuildVars, fetchVars, signVars, utilVars>>

\* sign_tarball taking the first of several default keys
sign_tarball_FirstOfMany(key, force, has_gnupg2, signing_keys, asc_exists) ==
    LET chosen == IF key # NoKeyArg THEN key
                  ELSE IF signing_keys # {} THEN Min(signing_keys)
                  ELSE NoKeyArg
    IN IF ~has_gnupg2 THEN [exc |-> "NoGpgException", key |-> NoKeyArg]
       ELSE IF key = NoKeyArg /\ Cardinality(signing_keys) = 0
            THEN [exc |-> "NoKeyException", key |-> NoKeyArg]
       ELSE IF asc_exists /\ ~force
            THEN [exc |-> "NoOverwriteException", key |-> NoKeyArg]
       ELSE [exc |-> "none", key |-> chosen]

\* sign_tarball(key, force, specfile_path): the exception raised ("none"
\* when it signs) and the key it signs with
sign_tarball(key, force, has_gnupg2, signing_keys, asc_exists) ==
    LET chosen == IF key # NoKeyArg THEN key
                  ELSE IF Cardinality(signing_keys) = 1
                       THEN CHOOSE k \in signing_keys : TRUE
                       ELSE NoKeyArg
    IN IF ~has_gnupg2 THEN [exc |-> "NoGpgException", key |-> NoKeyArg]
       ELSE IF key = NoKeyArg /\ Cardinality(signing_keys) > 1
            THEN [exc |-> "PickKeyException", key |-> NoKeyArg]
       ELSE IF key = NoKeyArg /\ Cardinality(signing_keys) = 0
            THEN [exc |-> "NoKeyException", key |-> NoKeyArg]
       ELSE IF asc_exists /\ ~force
            THEN [exc |-> "NoOverwriteException", key |-> NoKeyArg]
       ELSE [exc |-> "none", key |-> chosen]

\* if not unsigned: sign_tarball(key, force, specfile_path)
BuildSign(p) ==
    /\ bt[p].pc = "sign"
    /\ IF bt[p].call.unsigned
       THEN BtSet(p, [bt[p] EXCEPT !.pc = "bundle"])
       ELSE \E gpg \in BOOLEAN, keys \in SUBSET Keys :
               LET s == sign_tarball(bt[p].call.key, bt[p].call.force, gpg,
                                     keys, bt[p].ascfile.present)
               IN IF s.exc # "none"
                  THEN BtRaise(p, bt[p], s.exc)
                  ELSE BtSet(p, [bt[p] EXCEPT
                           !.pc = "bundle",
                           !.ascfile =
                               File(GpgSign(s.key, bt[p].specfile.body))])
    /\ UNCHANGED <<host, mirror, extractVars, rebuildVars, fetchVars, signVars, utilVars>>

\* the .spack archive: tarball, spec file and, when signed, the signature;
\* then the tarball and the signature are removed from the staging tree
BuildBundle(p) ==
    /\ bt[p].pc = "bundle"
    /\ BtSet(p, [bt[p] EXCEPT
           !.pc = "push_archive",
           !.spackfile = File([payload |-> bt[p].tarfile.body,
                               manifest |-> bt[p].tarfile.manifest,
                               meta |-> bt[p].specfile.body,
                               sig |-> IF bt[p].call.unsigned THEN None
                                       ELSE bt[p].ascfile]),
           !.tarfile = None, !.ascfile = None])
    /\ UNCHANGED <<host, mirror, extractVars, rebuildVars, fetchVars, signVars, utilVars>>

\* web_util.push_to_url(local, remote, keep_original=False)
BuildPush(p, local, field, next) ==
    LET ops == Append(bt[p].remote_ops, <<"push_to_url", field>>)
    IN \E ok \in BOOLEAN :
          IF ok
          THEN /\ mirror' = [mirror EXCEPT ![field] =
                     [present |-> TRUE, by |-> p, body |-> bt[p][local].body]]
               /\ BtSet(p, [bt[p] EXCEPT !.pc = next, ![local] = None,
                                         !.remote_ops = ops])
          ELSE /\ UNCHANGED mirror
               /\ BtRaise(p, [bt[p] EXCEPT !.remote_ops = ops],
                          "RemoteError")

\* the push of the archive with its failure not ending the call
BuildPushArchive_FailureIgnored(p) ==
    /\ bt[p].pc = "push_archive"
    /\ \E ok \in BOOLEAN :
          LET ops == Append(bt[p].remote_ops, <<"push_to_url", "archive">>)
              pushed == [bt[p] EXCEPT !.pc = "push_specfile",
                                      !.remote_ops = ops]
          IN IF ok
             THEN /\ mirror' = [mirror EXCEPT !.archive =
                        [present |-> TRUE, by |-> p,
                         body |-> bt[p].spackfile.body]]
                  /\ BtSet(p, [pushed EXCEPT !.spackfile = None])
             ELSE /\ UNCHANGED mirror
                  /\ BtSet(p, pushed)
    /\ UNCHANGED <<host, extractVars, rebuildVars, fetchVars, signVars, utilVars>>

BuildPushArchive(p) ==
    /\ bt[p].pc = "push_archive"
    /\ BuildPush(p, "spackfile", "archive", "push_specfile")
    /\ UNCHANGED <<host, extractVars, rebuildVars, fetchVars, signVars, utilVars>>

\* the push of the spec file left out
BuildPushSpecfile_Skipped(p) ==
    /\ bt[p].pc = "push_specfile"
    /\ BtSet(p, [bt[p] EXCEPT !.pc = "index", !.specfile = None])
    /\ UNCHANGED <<host, mirror, extractVars, rebuildVars, fetchVars, signVars, utilVars>>

BuildPushSpecfile(p) ==
    /\ bt[p].pc = "push_specfile"
    /\ BuildPush(p, "specfile", "specfile", "index")
    /\ UNCHANGED <<host, extractVars, rebuildVars, fetchVars, signVars, utilVars>>

\* try: if regenerate_index: generate_package_index(...)
\* finally: shutil.rmtree(tmpdir)
BuildIndex(p) ==
    /\ bt[p].pc = "index"
    /\ LET end == [bt[p] EXCEPT !.tmpdir = FALSE, !.tarfile_dir = FALSE,
                                !.specfile = None, !.spackfile = None]
       IN IF ~bt[p].call.regenerate_index
          THEN /\ BtRaise(p, end, "ok")
               /\ UNCHANGED mirror
          ELSE \E ok \in BOOLEAN :
                  IF ok
                  THEN /\ mirror' = [mirror EXCEPT !.index =
                             [present |-> TRUE, by |-> p,
                              body |-> IF mirror.specfile.present
                                       THEN {"spec.yaml"} ELSE {}]]
                       /\ BtRaise(p, [end EXCEPT !.remote_ops =
                              Append(@, <<"push_to_url", "index">>)], "ok")
                  ELSE /\ UNCHANGED mirror
                       /\ BtRaise(p, end, "RemoteError")
    /\ UNCHANGED <<host, extractVars, rebuildVars, fetchVars, signVars, utilVars>>

BuildStep(p) ==
    \/ BuildValidate(p)
    \/ BuildSetup(p)
    \/ BuildGuardArchive(p)
    \/ BuildGuardSpecfile(p)
    \/ BuildCopyTree(p)
    \/ BuildWriteBuildinfo(p)
    \/ BuildRelocate(p)
    \/ BuildTar(p)
    \/ BuildSpecfile(p)
    \/ BuildSign(p)
    \/ BuildBundle(p)
    \/ BuildPushArchive(p)
    \/ BuildPushSpecfile(p)
    \/ BuildIndex(p)

\* one process runs build_tarball, with any options, against a mirror that
\* may hold an earlier publication of the same spec
BuildInit ==
    /\ host \in {h \in Hosts : h.full_hash = Min(Hashes)}
    /\ mirror \in Mirrors0
    /\ \E call \in BuildCalls :
          bt = [p \in Procs |-> IF p = 1 THEN BtStart(call, mirror)
                                ELSE BtIdle]

BuildNext == \E p \in Procs : BuildStep(p)

\* two processes run build_tarball for the same spec and the same mirror
\* at the same time, each forced or not; their steps interleave freely, no
\* lock being taken anywhere in the function
RaceInit ==
    /\ host \in {h \in Hosts : h.full_hash = Min(Hashes)}
    /\ mirror \in Mirrors0
    /\ \E force \in [Procs -> BOOLEAN] :
          bt = [p \in Procs |->
                   BtStart([force |-> force[p], rel |-> FALSE,
                            unsigned |-> TRUE, allow_root |-> FALSE,
                            key |-> NoKeyArg, regenerate_index |-> FALSE,
                            concrete |-> TRUE], mirror)]

(***************************************************************************)
(* extract_tarball(spec, filename, allow_root, unsigned, force)            *)
(*   target  the installing host's layout: root and the spec's path below  *)
(*   prefix  the directory spec.prefix: absent, or the tree it holds       *)
(*   xt      the call: its options, the downloaded bundle, the temp        *)
(*           directory and what is in it, the gates evaluated so far       *)
(***************************************************************************)
\* the keys of the installer's keyring
TrustedKeys == {Min(Keys)}

XtSet(rec) == xt' = rec

\* an exception leaves the call; failed_at names the step that raised
XtRaise(rec, exc, step) ==
    XtSet([rec EXCEPT !.pc = "done", !.result = exc, !.failed_at = step])

\* everything below tmpdir goes with shutil.rmtree(tmpdir)
XtRmTmp(rec) ==
    [rec EXCEPT !.tmpdir = FALSE, !.tarfile = None, !.specfile = None,
                !.ascfile = None, !.workdir = None]

\* the check of the prefix with force going on over the existing prefix
ExtractCheckPrefix_ForceKeeps ==
    /\ xt.pc = "start"
    /\ IF prefix.present /\ ~xt.call.force
       THEN XtRaise(xt, "NoOverwriteException", "prefix")
       ELSE XtSet([xt EXCEPT !.pc = "mkdtemp"])
    /\ UNCHANGED <<target, prefix, buildVars, rebuildVars, fetchVars, signVars, utilVars>>

\* if os.path.exists(spec.prefix): rmtree under force, else raise
ExtractCheckPrefix ==
    /\ xt.pc = "start"
    /\ IF prefix.present
       THEN IF xt.call.force
            THEN /\ prefix' = None
                 /\ XtSet([xt EXCEPT !.pc = "mkdtemp"])
            ELSE /\ XtRaise(xt, "NoOverwriteException", "prefix")
                 /\ UNCHANGED prefix
       ELSE /\ XtSet([xt EXCEPT !.pc = "mkdtemp"])
            /\ UNCHANGED prefix
    /\ UNCHANGED <<target, buildVars, rebuildVars, fetchVars, signVars, utilVars>>

\* tmpdir = tempfile.mkdtemp()
ExtractMkdtemp ==
    /\ xt.pc = "mkdtemp"
    /\ XtSet([xt EXCEPT !.pc = "unpack", !.tmpdir = TRUE])
    /\ UNCHANGED <<target, prefix, buildVars, rebuildVars, fetchVars, signVars, utilVars>>

\* tar.extractall(tmpdir) of the .spack archive; a read error propagates
ExtractUnpack ==
    /\ xt.pc = "unpack"
    /\ \E ok \in BOOLEAN :
          IF ok
          THEN XtSet([xt EXCEPT !.pc = "verify",
                                !.tarfile = File(xt.bundle.payload),
                                !.specfile = File(xt.bundle.meta),
                                !.ascfile = xt.bundle.sig])
          ELSE XtRaise(xt, "TarError", "unpack")
    /\ UNCHANGED <<target, prefix, buildVars, rebuildVars, fetchVars, signVars, utilVars>>

\* the signature gate: skipped when unsigned, NoVerifyException without a
\* signature file, tty.die when Gpg.verify raises
VerifyOutcome_MissingPasses(unsigned, asc, doc, trusted) ==
    IF unsigned \/ ~asc.present THEN "pass"
    ELSE IF GpgVerify(asc.body, doc, trusted) THEN "pass" ELSE "die"

VerifyOutcome(unsigned, asc, doc, trusted) ==
    IF unsigned THEN "pass"
    ELSE IF asc.present
         THEN IF GpgVerify(asc.body, doc, trusted) THEN "pass" ELSE "die"
         ELSE "NoVerifyException"

ExtractVerify ==
    /\ xt.pc = "verify"
    /\ LET v == VerifyOutcome(xt.call.unsigned, xt.ascfile,
                              xt.specfile.body, TrustedKeys)
           seen == IF xt.call.unsigned THEN xt
                   ELSE [xt EXCEPT !.gates = Append(@, "signature")]
       IN CASE v = "pass" -> XtSet([seen EXCEPT !.pc = "checksum"])
            [] v = "die" -> XtRaise(XtRmTmp(seen), "SystemExit", "signature")
            [] v = "NoVerifyException" ->
                   XtRaise(XtRmTmp(seen), "NoVerifyException", "signature")
    /\ UNCHANGED <<target, prefix, buildVars, rebuildVars, fetchVars, signVars, utilVars>>

\* if bchecksum['hash'] != checksum
ChecksumOutcome_Ignored(spec_dict, checksum) == "pass"

ChecksumOutcome(spec_dict, checksum) ==
    IF spec_dict["binary_cache_checksum"]["hash"] # checksum
    THEN "NoChecksumException"
    ELSE "pass"

ExtractChecksum ==
    /\ xt.pc = "checksum"
    /\ LET checksum == checksum_tarball(xt.tarfile.body)
           spec_dict == xt.specfile.body
           seen == [xt EXCEPT !.gates = Append(@, "checksum")]
       IN IF ChecksumOutcome(spec_dict, checksum) = "pass"
          THEN XtSet([seen EXCEPT !.pc = "layout"])
          ELSE XtRaise(XtRmTmp(seen), "NoChecksumException", "checksum")
    /\ UNCHANGED <<target, prefix, buildVars, rebuildVars, fetchVars, signVars, utilVars>>

\* the layout gate: the relative prefix recorded in the metadata, which
\* defaults to the local one, against the local one
LayoutOutcome_Roots(spec_dict, t, buildpath) ==
    IF buildpath # t.root THEN "NewLayoutException" ELSE "pass"

LayoutOutcome_Ignored(spec_dict, t, buildpath) == "pass"

\* the gate with no default for a relative prefix that is not recorded
LayoutOutcome_NoDefault(spec_dict, t, buildpath) ==
    LET buildinfo == DictGet(spec_dict, "buildinfo", EmptyDict)
    IN IF DictGet(buildinfo, "relative_prefix", <<>>)
              # relpath(PrefixOf(t), t.root)
       THEN "NewLayoutException"
       ELSE "pass"

LayoutOutcome(spec_dict, t, buildpath) ==
    LET new_relative_prefix == relpath(PrefixOf(t), t.root)
        buildinfo == DictGet(spec_dict, "buildinfo", EmptyDict)
        old_relative_prefix ==
            DictGet(buildinfo, "relative_prefix", new_relative_prefix)
    IN IF old_relative_prefix # new_relative_prefix
       THEN "NewLayoutException"
       ELSE "pass"

ExtractLayout ==
    /\ xt.pc = "layout"
    /\ LET seen == [xt EXCEPT !.gates = Append(@, "layout")]
       IN IF LayoutOutcome(xt.specfile.body, target,
                           xt.bundle.manifest.buildpath) = "pass"
          THEN XtSet([seen EXCEPT !.pc = "payload"])
          ELSE XtRaise(XtRmTmp(seen), "NewLayoutException", "layout")
    /\ UNCHANGED <<target, prefix, buildVars, rebuildVars, fetchVars, signVars, utilVars>>

\* tar.extractall(path=tmpdir) of the payload; a read error propagates
ExtractPayload ==
    /\ xt.pc = "payload"
    /\ \E ok \in BOOLEAN :
          IF ok
          THEN XtSet([xt EXCEPT
                   !.pc = "install",
                   !.workdir = File(TarExtractAll(xt.tarfile.body)),
                   !.extracted = TRUE])
          ELSE XtRaise(xt, "TarError", "payload")
    /\ UNCHANGED <<target, prefix, buildVars, rebuildVars, fetchVars, signVars, utilVars>>

\* install_tree(workdir, spec.prefix, symlinks=True); a copy that fails
\* leaves what it had copied
ExtractInstallTree ==
    /\ xt.pc = "install"
    /\ \E ok \in BOOLEAN :
          IF ok
          THEN /\ prefix' = File(xt.workdir.body)
               /\ XtSet([xt EXCEPT !.pc = "cleanup", !.copied = TRUE])
          ELSE /\ \E part \in SUBSET xt.workdir.body :
                     /\ part # xt.workdir.body
                     /\ prefix' = File(part)
               /\ XtRaise([xt EXCEPT !.copied = TRUE], "IOError", "install")
    /\ UNCHANGED <<target, buildVars, rebuildVars, fetchVars, signVars, utilVars>>

\* os.remove(tarfile_path); os.remove(specfile_path)
ExtractCleanup ==
    /\ xt.pc = "cleanup"
    /\ XtSet([xt EXCEPT !.pc = "relocate", !.tarfile = None,
                        !.specfile = None])
    /\ UNCHANGED <<target, prefix, buildVars, rebuildVars, fetchVars, signVars, utilVars>>

\* the relocation step without the removal of the prefix on failure
ExtractRelocate_NoRollback ==
    /\ xt.pc = "relocate"
    /\ \E ok \in BOOLEAN :
          IF ok /\ BuildinfoFile \in prefix.body
          THEN XtRaise(XtRmTmp(xt), "ok", "none")
          ELSE XtRaise(XtRmTmp(xt), "SystemExit", "relocate")
    /\ UNCHANGED <<target, prefix, buildVars, rebuildVars, fetchVars,
                   signVars, utilVars>>

\* try: relocate_package(...) except: rmtree(spec.prefix); tty.die
\* finally: rmtree(tmpdir).  relocate_package reads the manifest from the
\* installed tree, so it raises when the tree holds none.
ExtractRelocate ==
    /\ xt.pc = "relocate"
    /\ \E ok \in BOOLEAN :
          IF ok /\ BuildinfoFile \in prefix.body
          THEN /\ XtRaise(XtRmTmp(xt), "ok", "none")
               /\ UNCHANGED prefix
          ELSE /\ prefix' = None
               /\ XtRaise(XtRmTmp(xt), "SystemExit", "relocate")
    /\ UNCHANGED <<target, buildVars, rebuildVars, fetchVars, signVars, utilVars>>

ExtractNext ==
    \/ ExtractCheckPrefix
    \/ ExtractMkdtemp
    \/ ExtractUnpack
    \/ ExtractVerify
    \/ ExtractChecksum
    \/ ExtractLayout
    \/ ExtractPayload
    \/ ExtractInstallTree
    \/ ExtractCleanup
    \/ ExtractRelocate

ExtractCalls == [allow_root : BOOLEAN, unsigned : BOOLEAN, force : BOOLEAN]

Targets == [root : Roots, rel : RelPrefixes]

\* one member of the tarball overwritten after packaging
Tamper(tar, i) ==
    [tar EXCEPT ![i] = (tar[i] + 1) % (NumFiles + 1)]

\* the payloads a bundle may carry for a packaged tree: the tarball as
\* packaged, or one with a member changed
PayloadsOf(tree) ==
    LET tar == TarAdd(tree \cup {BuildinfoFile})
    IN {tar} \cup {Tamper(tar, i) : i \in DOMAIN tar}

\* the metadata of a bundle packaged on host h, with or without the
\* buildinfo section and its relative_prefix entry
MetasOf(h) ==
    LET full == SpecDictOf(h, checksum_tarball(
                                  TarAdd(h.tree \cup {BuildinfoFile})))
        checksum == full.binary_cache_checksum
    IN {full,
        [binary_cache_checksum |-> checksum, buildinfo |-> EmptyDict,
         full_hash |-> h.full_hash],
        [binary_cache_checksum |-> checksum, full_hash |-> h.full_hash]}

\* the signature files a bundle may carry for its metadata: none, one made
\* with a trusted key, one made with another key, one made over other
\* metadata
SigsOf(meta) ==
    {None} \cup {File(GpgSign(k, meta)) : k \in Keys}
           \cup {File(GpgSign(Min(Keys), PriorMeta))}

\* the bundles a mirror may serve: packaged on any host, then possibly
\* changed in payload, metadata or signature
Bundles ==
    UNION {
      UNION {
        UNION {
          {[payload |-> pl, meta |-> m, sig |-> asc,
            manifest |-> BuildinfoOf(h, FALSE)] : asc \in SigsOf(m)}
          : m \in MetasOf(h)}
        : pl \in PayloadsOf(h.tree)}
      : h \in {g \in Hosts : g.full_hash = Min(Hashes)}}

\* what an earlier installation left in the prefix
OldInstall == File(Files)

XtStart(call, bundle, pre) ==
    [pc |-> "start", call |-> call, bundle |-> bundle, prefix0 |-> pre,
     tmpdir |-> FALSE, tarfile |-> None, specfile |-> None,
     ascfile |-> None, workdir |-> None, gates |-> <<>>,
     extracted |-> FALSE, copied |-> FALSE,
     result |-> "none", failed_at |-> "none"]

ExtractInit ==
    /\ target \in Targets
    /\ prefix \in {None, OldInstall}
    /\ \E call \in ExtractCalls, bundle \in Bundles :
          xt = XtStart(call, bundle, prefix)

\* the round trip: once build_tarball has published a bundle, a host
\* downloads the .spack archive from the mirror and calls extract_tarball
\* on it, with any options, under any layout, over an existing prefix or
\* none
RoundTripInstall ==
    /\ xt.pc = "idle"
    /\ \E p \in Procs :
          /\ bt[p].pc = "done" /\ bt[p].result = "ok"
          /\ mirror.archive.present /\ mirror.archive.by = p
    /\ target' \in Targets
    /\ prefix' \in {None, OldInstall}
    /\ \E call \in ExtractCalls :
          xt' = XtStart(call, mirror.archive.body, prefix')
    /\ UNCHANGED <<buildVars, rebuildVars, fetchVars, signVars, utilVars>>

(***************************************************************************)
(* needs_rebuild(spec, mirror_url, rebuild_on_errors) and                  *)
(* check_specs_against_mirrors(mirrors, specs, output_file,                *)
(*                             rebuild_on_errors)                          *)
(*   ck  the call of check_specs_against_mirrors: its arguments, the loop  *)
(*       position, rebuild_list and rebuilds, and the last call of         *)
(*       needs_rebuild it made                                             *)
(***************************************************************************)
\* a spec.yaml on a mirror is a sequence of "key: value" lines; syaml.load
\* turns it into a dict
YamlLoad(contents) ==
    [k \in {contents[i][1] : i \in DOMAIN contents} |->
        LET i == CHOOSE i \in DOMAIN contents : contents[i][1] = k
        IN contents[i][2]]

\* what web_util.read_from_url gives for the spec's .spec.yaml
NotFetched == [kind |-> "none", contents |-> <<>>]
UrlError == [kind |-> "URLError", contents |-> <<>>]
Fetched(contents) == [kind |-> "ok", contents |-> contents]

YamlDocs ==
    {<<>>, << <<"hash", 0>> >>}
    \cup {<< <<"full_hash", h>> >> : h \in Hashes}
    \cup {<< <<"hash", 0>>, <<"full_hash", h>> >> : h \in Hashes}

Responses == {UrlError} \cup {Fetched(d) : d \in YamlDocs}

Returns(v) == [exc |-> "none", value |-> v]

\* needs_rebuild with the fallback of rebuild_on_errors dropped
needs_rebuild_ErrorsRebuild(spec, response, rebuild_on_errors) ==
    IF ~spec.concrete THEN [exc |-> "ValueError", value |-> FALSE]
    ELSE IF response.kind = "URLError" THEN Returns(TRUE)
    ELSE IF response.contents = <<>> THEN Returns(TRUE)
    ELSE LET spec_yaml == YamlLoad(response.contents)
         IN IF ~HasKey(spec_yaml, "full_hash")
               \/ spec_yaml["full_hash"] # spec.full_hash
            THEN Returns(TRUE)
            ELSE Returns(FALSE)

\* needs_rebuild with a missing full_hash treated as a read error
needs_rebuild_MissingIsError(spec, response, rebuild_on_errors) ==
    IF ~spec.concrete THEN [exc |-> "ValueError", value |-> FALSE]
    ELSE IF response.kind = "URLError" THEN Returns(rebuild_on_errors)
    ELSE IF response.contents = <<>> THEN Returns(rebuild_on_errors)
    ELSE LET spec_yaml == YamlLoad(response.contents)
         IN IF ~HasKey(spec_yaml, "full_hash")
            THEN Returns(rebuild_on_errors)
            ELSE Returns(spec_yaml["full_hash"] # spec.full_hash)

needs_rebuild(spec, response, rebuild_on_errors) ==
    IF ~spec.concrete THEN [exc |-> "ValueError", value |-> FALSE]
    ELSE IF response.kind = "URLError" THEN Returns(rebuild_on_errors)
    ELSE IF response.contents = <<>> THEN Returns(rebuild_on_errors)
    ELSE LET spec_yaml == YamlLoad(response.contents)
         IN IF ~HasKey(spec_yaml, "full_hash")
               \/ spec_yaml["full_hash"] # spec.full_hash
            THEN Returns(TRUE)
            ELSE Returns(FALSE)

CkSet(rec) == ck' = rec /\ UNCHANGED <<buildVars, extractVars, fetchVars, signVars, utilVars>>

\* for mirror in MirrorCollection(mirrors).values(): rebuild_list = []
CheckNextMirror ==
    /\ ck.pc = "mirrors"
    /\ IF ck.m < ck.mirrors
       THEN CkSet([ck EXCEPT !.pc = "specs", !.m = @ + 1, !.j = 0,
                             !.rebuild_list = <<>>])
       ELSE CkSet([ck EXCEPT !.pc = "return"])

\* for spec in specs: if needs_rebuild(...): rebuild_list.append(...)
\* The mirror is read only once the spec has passed validation.
CheckSpec ==
    /\ ck.pc = "specs"
    /\ ck.j < Len(ck.specs)
    /\ LET spec == ck.specs[ck.j + 1]
       IN \E response \in
                 IF spec.concrete THEN Responses ELSE {NotFetched} :
             LET r == needs_rebuild(spec, response, ck.rebuild_on_errors)
                 called == [ck EXCEPT
                     !.j = @ + 1,
                     !.last = [spec |-> spec, response |-> response,
                               out |-> r],
                     !.calls = @ \cup {<<ck.m, ck.j + 1>>}]
             IN IF r.exc # "none"
                THEN CkSet([called EXCEPT !.pc = "done", !.result = r.exc])
                ELSE IF r.value
                THEN CkSet([called EXCEPT
                         !.rebuild_list = Append(@, ck.j + 1),
                         !.stale = @ \cup {<<ck.m, ck.j + 1>>}])
                ELSE CkSet(called)

\* the end of a mirror's loop with the test of rebuild_list left out
CheckEndMirror_AlwaysEntry ==
    /\ ck.pc = "specs"
    /\ ck.j = Len(ck.specs)
    /\ CkSet([ck EXCEPT
           !.pc = "mirrors",
           !.rebuilds = [k \in DOMAIN ck.rebuilds \cup {ck.m} |->
                            IF k = ck.m THEN ck.rebuild_list
                            ELSE ck.rebuilds[k]]])

\* if rebuild_list: rebuilds[mirror.fetch_url] = {...}
\* (a mirror of the collection is identified by its fetch_url)
CheckEndMirror ==
    /\ ck.pc = "specs"
    /\ ck.j = Len(ck.specs)
    /\ IF ck.rebuild_list # <<>>
       THEN CkSet([ck EXCEPT
                !.pc = "mirrors",
                !.rebuilds = [k \in DOMAIN ck.rebuilds \cup {ck.m} |->
                                 IF k = ck.m THEN ck.rebuild_list
                                 ELSE ck.rebuilds[k]]])
       ELSE CkSet([ck EXCEPT !.pc = "mirrors"])

\* return 1 if rebuilds else 0
ReturnValue_LastMirror(rebuilds, rebuild_list) ==
    IF rebuild_list # <<>> THEN 1 ELSE 0

ReturnValue(rebuilds, rebuild_list) ==
    IF DOMAIN rebuilds # {} THEN 1 ELSE 0

\* if output_file: write json.dumps(rebuilds); return
CheckReturn ==
    /\ ck.pc = "return"
    /\ CkSet([ck EXCEPT
           !.pc = "done", !.result = "returned",
           !.ret = ReturnValue(ck.rebuilds, ck.rebuild_list),
           !.written = IF ck.output_file THEN File(ck.rebuilds) ELSE None])

RebuildNext ==
    \/ CheckNextMirror
    \/ CheckSpec
    \/ CheckEndMirror
    \/ CheckReturn

\* the j-th spec given: concrete or not, with one of the full hashes
SpecAt(j, concrete) ==
    [concrete |-> concrete, full_hash |-> ((j - 1) % NumHashes) + 1]

SpecLists ==
    UNION {{[j \in 1..n |-> SpecAt(j, c[j])] : c \in [1..n -> BOOLEAN]}
           : n \in 0..NumSpecs}

CkStart(mirrors, specs, output_file, rebuild_on_errors) ==
    [pc |-> "mirrors", mirrors |-> mirrors, specs |-> specs,
     output_file |-> output_file, rebuild_on_errors |-> rebuild_on_errors,
     m |-> 0, j |-> 0, rebuild_list |-> <<>>, rebuilds |-> <<>>,
     last |-> [spec |-> SpecAt(1, FALSE), response |-> NotFetched,
               out |-> Returns(FALSE)],
     calls |-> {}, stale |-> {}, written |-> None,
     ret |-> -1, result |-> "none"]

RebuildInit ==
    \E mirrors \in 0..NumMirrors, specs \in SpecLists,
       output_file \in BOOLEAN, rebuild_on_errors \in BOOLEAN :
       ck = CkStart(mirrors, specs, output_file, rebuild_on_errors)

(***************************************************************************)
(* download_tarball(spec)                                                  *)
(*   dl  the call: the spec, the mirrors of the collection in the order    *)
(*       of iteration (each serves the spec's .spack file or not), the     *)
(*       loop position, the mirrors contacted, the stage, the return value *)
(***************************************************************************)
NumFetchMirrors == 3

\* descriptions handed to one download_buildcache_entry call
NumDescriptions == 2

\* <architecture>/<compiler>/<package>-<version>
tarball_directory_name(spec) == <<"arch", "compiler", "pkg">>

\* <architecture>-<compiler>-<package>-<version>-<dag_hash><ext>, one path
\* component
tarball_name(spec, ext) == [pkg |-> "pkg", dag_hash |-> spec, ext |-> ext]

tarball_path_name(spec, ext) ==
    Append(tarball_directory_name(spec), tarball_name(spec, ext))

\* Stage(url, name="build_cache", keep=True).save_filename: the stage is
\* named, so the path does not depend on the mirror
save_filename(url) == <<"stage", "build_cache", url[Len(url)]>>

DlSet(rec) ==
    /\ dl' = rec
    /\ UNCHANGED <<buildVars, extractVars, rebuildVars, gs, signVars, utilVars>>

\* if not spack.mirror.MirrorCollection(): tty.die(...)
DownloadCheckMirrors ==
    /\ dl.pc = "start"
    /\ IF dl.mirrors = <<>>
       THEN DlSet([dl EXCEPT !.pc = "done", !.result = "SystemExit"])
       ELSE DlSet([dl EXCEPT !.pc = "loop"])

\* what one iteration of the loop does with stage.fetch()
FetchOutcome_IgnoresSuccess(served) == "continue"

FetchOutcome(served) == IF served THEN "return" ELSE "continue"

\* one iteration: stage.fetch() from the next mirror; return the staged
\* file's path, or continue on FetchError
DownloadFetch ==
    /\ dl.pc = "loop"
    /\ dl.i < Len(dl.mirrors)
    /\ LET i == dl.i + 1
           url == <<i, "build_cache">> \o tarball_path_name(dl.spec, ".spack")
           tried == [dl EXCEPT !.i = i, !.contacted = Append(@, i)]
       IN IF FetchOutcome(dl.mirrors[i]) = "return"
          THEN DlSet([tried EXCEPT
                   !.pc = "done", !.result = "returned",
                   !.staged = [present |-> TRUE, from |-> i],
                   !.ret = File(save_filename(url))])
          ELSE DlSet(tried)

\* return None
DownloadReturnNone ==
    /\ dl.pc = "loop"
    /\ dl.i = Len(dl.mirrors)
    /\ DlSet([dl EXCEPT !.pc = "done", !.result = "returned", !.ret = None])

DownloadNext ==
    \/ DownloadCheckMirrors
    \/ DownloadFetch
    \/ DownloadReturnNone

MirrorLists ==
    UNION {[1..n -> BOOLEAN] : n \in 0..NumFetchMirrors}

DlStart(spec, mirrors) ==
    [pc |-> "start", spec |-> spec, mirrors |-> mirrors, i |-> 0,
     contacted |-> <<>>, staged |-> [present |-> FALSE, from |-> 0],
     ret |-> None, result |-> "none"]

DownloadInit ==
    \E spec \in Hashes, mirrors \in MirrorLists :
       dl = DlStart(spec, mirrors)

(***************************************************************************)
(* get_specs(force), called several times in one process                   *)
(*   gs  the process: _cached_specs (None when absent, else the list), the *)
(*       number of mirrors configured, the files of the stage (kept        *)
(*       between calls), and the call in progress: force, the links found, *)
(*       the loop position, whether it has contacted a mirror, its return  *)
(*       value; first is the result of the first completed discovery       *)
(***************************************************************************)
MaxCalls == 3

Links(n) == (1..n) \X Hashes

\* the links of a set in the order the loop takes them
RECURSIVE LinkSeq(_)
LinkSeq(S) ==
    IF S = {} THEN <<>>
    ELSE LET l == CHOOSE x \in S :
                     \A y \in S : x[1] < y[1]
                                   \/ (x[1] = y[1] /\ x[2] <= y[2])
         IN <<l>> \o LinkSeq(S \ {l})

GsSet(rec) ==
    /\ gs' = rec
    /\ UNCHANGED <<buildVars, extractVars, rebuildVars, dl, signVars, utilVars>>

\* the end of a call: what it returns
GsReturn(rec, value) ==
    [rec EXCEPT !.pc = "ready", !.ret = File(value)]

\* a call of get_specs(force) by the process
GetSpecsCall ==
    /\ gs.pc = "ready"
    /\ gs.calls < MaxCalls
    /\ \E force \in BOOLEAN :
          GsSet([gs EXCEPT !.pc = "cache", !.calls = @ + 1,
                           !.force = force, !.links = <<>>, !.k = 0,
                           !.contacted = FALSE, !.ret = None,
                           !.had_first = gs.first.present])

\* if _cached_specs: a list that is there and not empty
UseCache(cached) == cached.present /\ cached.body # <<>>

\* if _cached_specs: return _cached_specs
GetSpecsCheckCache ==
    /\ gs.pc = "cache"
    /\ IF UseCache(gs.cached)
       THEN GsSet(GsReturn(gs, gs.cached.body))
       ELSE GsSet([gs EXCEPT !.pc = "mirrors"])

\* if not spack.mirror.MirrorCollection(): return {}
GetSpecsCheckMirrors ==
    /\ gs.pc = "mirrors"
    /\ IF gs.mirrors = 0
       THEN GsSet(GsReturn(gs, <<>>))
       ELSE GsSet([gs EXCEPT !.pc = "discover"])

\* the loop over the mirrors: listdir or spider of each build cache gives
\* the spec.yaml links there at the time; then _cached_specs = []
GetSpecsDiscover ==
    /\ gs.pc = "discover"
    /\ \E urls \in SUBSET Links(gs.mirrors) :
          GsSet([gs EXCEPT !.pc = "fetch", !.links = LinkSeq(urls),
                           !.k = 0, !.contacted = TRUE,
                           !.cached = File(<<>>)])

\* one link: under force the staged file is removed; a file not staged is
\* fetched, FetchError going on to the next link; the spec read from the
\* staged file is appended
GetSpecsFetch ==
    /\ gs.pc = "fetch"
    /\ gs.k < Len(gs.links)
    /\ LET h == gs.links[gs.k + 1][2]
           staged == IF gs.force THEN gs.staged \ {h} ELSE gs.staged
           next == [gs EXCEPT !.k = @ + 1, !.staged = staged]
       IN IF h \in staged
          THEN GsSet([next EXCEPT !.cached = File(Append(@.body, h))])
          ELSE \E ok \in BOOLEAN :
                  IF ok
                  THEN GsSet([next EXCEPT
                           !.contacted = TRUE,
                           !.staged = @ \cup {h},
                           !.cached = File(Append(@.body, h))])
                  ELSE GsSet([next EXCEPT !.contacted = TRUE])

\* return _cached_specs
GetSpecsReturn ==
    /\ gs.pc = "fetch"
    /\ gs.k = Len(gs.links)
    /\ GsSet([GsReturn(gs, gs.cached.body) EXCEPT
           !.first = IF gs.first.present THEN gs.first
                     ELSE File(gs.cached.body)])

GetSpecsNext ==
    \/ GetSpecsCall
    \/ GetSpecsCheckCache
    \/ GetSpecsCheckMirrors
    \/ GetSpecsDiscover
    \/ GetSpecsFetch
    \/ GetSpecsReturn

\* a process that has not called get_specs: _cached_specs = None
GsStart(mirrors, staged) ==
    [pc |-> "ready", cached |-> None, mirrors |-> mirrors,
     staged |-> staged, calls |-> 0, force |-> FALSE, links |-> <<>>,
     k |-> 0, contacted |-> FALSE, ret |-> None, first |-> None,
     had_first |-> FALSE]

GetSpecsInit ==
    \E mirrors \in 0..NumMirrors, staged \in SUBSET Hashes :
       gs = GsStart(mirrors, staged)

(***************************************************************************)
(* sign_tarball(key, force, specfile_path) called on a spec file           *)
(*   sg  the call: its arguments, whether gpg2 is installed, the keys      *)
(*       Gpg.signing_keys() lists, the spec file, the .asc file beside it  *)
(*       (asc0 before the call, asc now), the exception raised             *)
(***************************************************************************)
\* a signature file left beside the spec file by an earlier signing
OldAsc == File(GpgSign(Min(Keys), PriorMeta))

\* the call as a whole: raise, or remove an existing .asc under force and
\* write the signature made with the chosen key
SignTarball ==
    /\ sg.pc = "start"
    /\ LET s == sign_tarball(sg.key, sg.force, sg.has_gnupg2,
                             sg.signing_keys, sg.asc.present)
       IN IF s.exc # "none"
          THEN sg' = [sg EXCEPT !.pc = "done", !.result = s.exc]
          ELSE sg' = [sg EXCEPT !.pc = "done", !.result = "ok",
                                !.asc = File(GpgSign(s.key, sg.doc))]
    /\ UNCHANGED <<buildVars, extractVars, rebuildVars, fetchVars, utilVars>>

SgStart(key, force, has_gnupg2, signing_keys, asc, doc) ==
    [pc |-> "start", key |-> key, force |-> force,
     has_gnupg2 |-> has_gnupg2, signing_keys |-> signing_keys,
     doc |-> doc, asc0 |-> asc, asc |-> asc, result |-> "none"]

SignInit ==
    \E key \in {NoKeyArg} \cup Keys, force \in BOOLEAN,
       has_gnupg2 \in BOOLEAN, signing_keys \in SUBSET Keys,
       asc \in {None, OldAsc} :
       sg = SgStart(key, force, has_gnupg2, signing_keys, asc,
                    SpecDictOf([root |-> <<"opt">>, rel |-> <<"zlib">>,
                                full_hash |-> Min(Hashes)], 0))

(***************************************************************************)
(* relocate_package(workdir, spec, allow_root)                             *)
(*   rp  the call: the installed prefix it works on, the manifest read     *)
(*       from it, the local roots, the platform, the calls made to the     *)
(*       relocation routines so far and the files they have rewritten      *)
(***************************************************************************)
\* file names as strings of characters; "a~" is a backup of "a"
TextNames == {<<"a">>, <<"a", "~">>}

BinaryNames == {<<"b">>}

LinkNames == {<<"l">>}

\* str.endswith of a one-character suffix
EndsWith(name, c) == Len(name) > 0 /\ name[Len(name)] = c

\* the default of buildinfo.get('spackprefix', ...)
NotInBuildinfo == <<"not", "in", "buildinfo", "dictionary">>

\* the relative_rpaths flag taken to be unset whatever the manifest says
RelFlag_Ignored(buildinfo) == FALSE

\* rel = buildinfo.get('relative_rpaths', False)
RelFlag(buildinfo) == DictGet(buildinfo, "relative_rpaths", FALSE)

\* path_name = os.path.join(workdir, filename) for each listed file
PathNames(workdir, filenames) == {workdir \o <<f>> : f \in filenames}

\* the text files handed to relocate_text: backups left out
TextPathNames(workdir, buildinfo) ==
    {pn \in PathNames(workdir, buildinfo.relocate_textfiles) :
        ~EndsWith(pn[Len(pn)], "~")}

RpSet(rec) ==
    /\ rp' = rec
    /\ UNCHANGED <<buildVars, extractVars, rebuildVars, fetchVars, signVars,
                   ix, be>>

\* a relocation routine is called on path_names: it rewrites them and
\* returns, or raises having rewritten some of them
RpCall(call, path_names, next) ==
    \/ RpSet([rp EXCEPT !.pc = next,
                        !.ops = Append(@, call),
                        !.rewritten = @ \cup path_names,
                        !.result = IF next = "done" THEN "ok" ELSE @])
    \/ \E part \in SUBSET path_names :
          RpSet([rp EXCEPT !.pc = "done",
                           !.ops = Append(@, call),
                           !.rewritten = @ \cup part,
                           !.result = "raise"])

\* read_buildinfo_file, the roots, and the early return
RelocateRead ==
    /\ rp.pc = "start"
    /\ IF RelFlag(rp.buildinfo)
       THEN RpSet([rp EXCEPT !.pc = "done", !.result = "ok"])
       ELSE RpSet([rp EXCEPT !.pc = "text"])

\* relocate.relocate_text(path_names, oldpath, newpath, oldprefix,
\* newprefix)
RelocateText ==
    /\ rp.pc = "text"
    /\ LET path_names == TextPathNames(rp.workdir, rp.buildinfo)
       IN RpCall([prim |-> "relocate_text", path_names |-> path_names,
                  old |-> rp.buildinfo.buildpath, new |-> rp.new_path,
                  oldprefix |-> DictGet(rp.buildinfo, "spackprefix",
                                        NotInBuildinfo),
                  newprefix |-> rp.new_prefix],
                 path_names, "binaries")

\* relocate.relocate_macho_binaries / relocate_elf_binaries(path_names,
\* old_path, new_path, allow_root)
RelocateBinaries ==
    /\ rp.pc = "binaries"
    /\ LET path_names ==
               PathNames(rp.workdir, rp.buildinfo.relocate_binaries)
       IN RpCall([prim |-> IF rp.platform = "darwin"
                           THEN "relocate_macho_binaries"
                           ELSE "relocate_elf_binaries",
                  path_names |-> path_names,
                  old |-> rp.buildinfo.buildpath, new |-> rp.new_path],
                 path_names, "links")

\* relocate.relocate_links(path_names, old_path, new_path)
RelocateLinks ==
    /\ rp.pc = "links"
    /\ LET path_names ==
               PathNames(rp.workdir,
                         DictGet(rp.buildinfo, "relocate_links", {}))
       IN RpCall([prim |-> "relocate_links", path_names |-> path_names,
                  old |-> rp.buildinfo.buildpath, new |-> rp.new_path],
                 path_names, "done")

RelocateNext ==
    \/ RelocateRead
    \/ RelocateText
    \/ RelocateBinaries
    \/ RelocateLinks

RpStart(workdir, buildinfo, new_path, platform) ==
    [pc |-> "start", workdir |-> workdir, buildinfo |-> buildinfo,
     new_path |-> new_path, new_prefix |-> <<"srv", "spack">>,
     platform |-> platform, ops |-> <<>>, rewritten |-> {},
     result |-> "none"]

\* the manifests a bundle may carry: the keys write_buildinfo_file always
\* writes, with the optional keys present or not
Manifests ==
    LET base == [buildpath : Roots,
                 relocate_textfiles : SUBSET TextNames,
                 relocate_binaries : SUBSET BinaryNames]
        flag == {b @@ [relative_rpaths |-> r] :
                    b \in base, r \in BOOLEAN} \cup base
        links == {b @@ [relocate_links |-> l] :
                     b \in flag, l \in SUBSET LinkNames} \cup flag
    IN  {b @@ [spackprefix |-> <<"usr", "spack">>] : b \in links}
            \cup links

\* relocate_package called on an installed prefix, with any manifest, on
\* either platform, under either local root
RelocateInit ==
    \E buildinfo \in Manifests, new_path \in Roots,
       platform \in {"darwin", "linux"} :
       rp = RpStart(new_path \o <<"zlib">>, buildinfo, new_path, platform)

(***************************************************************************)
(* generate_package_index(cache_prefix)                                    *)
(*   ix  the call: what web_util.list_url(cache_prefix) lists, the index   *)
(*       page at cache_prefix (index0 before the call, index now), the     *)
(*       temp directory and the page written in it                         *)
(***************************************************************************)
\* entry names, split at their dots: "a.spec.yaml" is <<"a", "spec", "yaml">>
Entries ==
    {<<"a", "spec", "yaml">>, <<"k", "key">>, <<"a", "spack">>,
     <<"index", "html">>, <<"yaml">>, <<"a", "yaml", "bak">>}

\* entry.endswith('.' + ext)
EndsWithExt(entry, ext) == Len(entry) >= 2 /\ entry[Len(entry)] = ext

\* a page linking the metadata files only
file_list_YamlOnly(listing) ==
    {entry \in listing : EndsWithExt(entry, "yaml")}

\* file_list: the entries ending in '.yaml' or '.key'
file_list(listing) ==
    {entry \in listing :
        EndsWithExt(entry, "yaml") \/ EndsWithExt(entry, "key")}

IxSet(rec) ==
    /\ ix' = rec
    /\ UNCHANGED <<buildVars, extractVars, rebuildVars, fetchVars, signVars,
                   rp, be>>

\* an exception leaves the try block: finally: shutil.rmtree(tmpdir)
IxRaise(exc) ==
    IxSet([ix EXCEPT !.pc = "done", !.tmpdir = FALSE, !.index_html = None,
                     !.result = exc])

\* tmpdir = tempfile.mkdtemp()
IndexMkdtemp ==
    /\ ix.pc = "start"
    /\ IxSet([ix EXCEPT !.pc = "write", !.tmpdir = TRUE,
                        !.had_tmpdir = TRUE])

\* web_util.list_url(cache_prefix), and the page written into tmpdir
IndexWrite ==
    /\ ix.pc = "write"
    /\ \/ IxSet([ix EXCEPT !.pc = "push",
                           !.index_html = File(file_list(ix.listing))])
       \/ IxRaise("ListError")

\* web_util.push_to_url(index_html_path, <cache_prefix>/index.html,
\* keep_original=False); finally: shutil.rmtree(tmpdir)
IndexPush ==
    /\ ix.pc = "push"
    /\ \/ IxSet([ix EXCEPT !.pc = "done", !.index = ix.index_html,
                           !.index_html = None, !.tmpdir = FALSE,
                           !.result = "ok"])
       \/ IxRaise("PushError")

IndexNext ==
    \/ IndexMkdtemp
    \/ IndexWrite
    \/ IndexPush

IxStart(listing, index) ==
    [pc |-> "start", listing |-> listing, index0 |-> index,
     index |-> index, tmpdir |-> FALSE, had_tmpdir |-> FALSE,
     index_html |-> None, result |-> "none"]

\* any listing of cache_prefix, which holds no index page or an earlier one
IndexInit ==
    \E listing \in SUBSET Entries,
       index \in {None, File({<<"old", "spec", "yaml">>})} :
       ix = IxStart(listing, index)

(***************************************************************************)
(* download_buildcache_entry(file_descriptions)                            *)
(*   be  the call: the descriptions (required or not), the mirrors of the  *)
(*       collection in order (each the set of descriptions its fetch       *)
(*       succeeds for), the position in both loops, the fetches made and   *)
(*       what was returned                                                 *)
(***************************************************************************)
\* what _download_buildcache_entry does after a description's fetch
AfterFetch_OptionalFails(fetched, required) ==
    IF fetched THEN "next" ELSE "return False"

AfterFetch(fetched, required) ==
    IF ~fetched /\ required THEN "return False" ELSE "next"

BeSet(rec) ==
    /\ be' = rec
    /\ UNCHANGED <<buildVars, extractVars, rebuildVars, fetchVars, signVars,
                   rp, ix>>

\* if not spack.mirror.MirrorCollection(): tty.die(...)
EntryCheckMirrors ==
    /\ be.pc = "start"
    /\ IF be.mirrors = <<>>
       THEN BeSet([be EXCEPT !.pc = "done", !.result = "die"])
       ELSE BeSet([be EXCEPT !.pc = "mirror"])

\* for mirror in ...values(): the next mirror, or return False
EntryNextMirror ==
    /\ be.pc = "mirror"
    /\ IF be.i < Len(be.mirrors)
       THEN BeSet([be EXCEPT !.pc = "description", !.i = @ + 1, !.j = 0])
       ELSE BeSet([be EXCEPT !.pc = "done", !.result = "returned",
                             !.ret = FALSE])

\* for description in descriptions: stage.fetch(); a FetchError of a
\* required description returns False to the mirror loop, which continues
EntryFetch ==
    /\ be.pc = "description"
    /\ be.j < Len(be.descriptions)
    /\ LET j == be.j + 1
           fetched == j \in be.mirrors[be.i]
           tried == [be EXCEPT !.j = j,
                               !.fetches = Append(@, <<be.i, j, fetched>>)]
       IN IF AfterFetch(fetched, be.descriptions[j]) = "return False"
          THEN BeSet([tried EXCEPT !.pc = "mirror"])
          ELSE BeSet(tried)

\* _download_buildcache_entry returns True, and so does the call
EntryReturnTrue ==
    /\ be.pc = "description"
    /\ be.j = Len(be.descriptions)
    /\ BeSet([be EXCEPT !.pc = "done", !.result = "returned", !.ret = TRUE])

EntryNext ==
    \/ EntryCheckMirrors
    \/ EntryNextMirror
    \/ EntryFetch
    \/ EntryReturnTrue

BeStart(descriptions, mirrors) ==
    [pc |-> "start", descriptions |-> descriptions, mirrors |-> mirrors,
     i |-> 0, j |-> 0, fetches |-> <<>>, ret |-> FALSE, result |-> "none"]

\* the descriptions, each required or not
DescriptionLists ==
    UNION {[1..n -> BOOLEAN] : n \in 0..NumDescriptions}

\* the mirror collections: each mirror serves some of the descriptions
EntryMirrorLists ==
    UNION {[1..n -> SUBSET (1..NumDescriptions)] : n \in 0..NumFetchMirrors}

EntryInit ==
    \E descriptions \in DescriptionLists, mirrors \in EntryMirrorLists :
       be = BeStart(descriptions, mirrors)

(***************************************************************************)
(* Specifications: each runs one operation from every initial state it     *)
(* can be called in; the state of the other operations stays as it is.     *)
(***************************************************************************)
BuildIdle ==
    /\ host = [root |-> <<"opt">>, rel |-> <<"zlib">>, tree |-> Files,
               full_hash |-> Min(Hashes), rewritten |-> {}]
    /\ mirror = [archive |-> None, specfile |-> None, index |-> None]
    /\ bt = [p \in Procs |-> BtIdle]

ExtractIdle ==
    /\ target = [root |-> <<"opt">>, rel |-> <<"zlib">>]
    /\ prefix = None
    /\ xt = [XtStart([allow_root |-> FALSE, unsigned |-> FALSE,
                      force |-> FALSE],
                     [payload |-> <<>>, meta |-> PriorMeta, sig |-> None,
                      manifest |-> BuildinfoOf(
                          [root |-> <<"opt">>, rel |-> <<"zlib">>], FALSE)],
                     None)
             EXCEPT !.pc = "idle"]

RebuildIdle == ck = [CkStart(0, <<>>, FALSE, FALSE) EXCEPT !.pc = "idle"]

DownloadIdle == dl = [DlStart(Min(Hashes), <<>>) EXCEPT !.pc = "idle"]

SignIdle ==
    sg = [SgStart(NoKeyArg, FALSE, FALSE, {}, None, PriorMeta)
          EXCEPT !.pc = "idle"]

GetSpecsIdle == gs = [GsStart(0, {}) EXCEPT !.pc = "idle"]

IndexIdle == ix = [IxStart({}, None) EXCEPT !.pc = "idle"]

EntryIdle == be = [BeStart(<<>>, <<>>) EXCEPT !.pc = "idle"]

RelocateIdle ==
    rp = [RpStart(<<"opt", "zlib">>,
                  [buildpath |-> <<"opt">>, relocate_textfiles |-> {},
                   relocate_binaries |-> {}], <<"opt">>, "linux")
          EXCEPT !.pc = "idle"]

UtilIdle == RelocateIdle /\ IndexIdle /\ EntryIdle

FetchIdle == DownloadIdle /\ GetSpecsIdle /\ SignIdle /\ UtilIdle

InitBuild == BuildInit /\ ExtractIdle /\ RebuildIdle /\ FetchIdle

InitExtract == BuildIdle /\ ExtractInit /\ RebuildIdle /\ FetchIdle

InitRebuild == BuildIdle /\ ExtractIdle /\ RebuildInit /\ FetchIdle

InitDownload ==
    /\ BuildIdle /\ ExtractIdle /\ RebuildIdle
    /\ DownloadInit /\ GetSpecsIdle /\ SignIdle /\ UtilIdle

InitGetSpecs ==
    /\ BuildIdle /\ ExtractIdle /\ RebuildIdle
    /\ DownloadIdle /\ GetSpecsInit /\ SignIdle /\ UtilIdle

InitSign ==
    /\ BuildIdle /\ ExtractIdle /\ RebuildIdle
    /\ DownloadIdle /\ GetSpecsIdle /\ SignInit /\ UtilIdle

\* the three operations above idle, and one of the utilities called
InitUtil(init) ==
    /\ BuildIdle /\ ExtractIdle /\ RebuildIdle
    /\ DownloadIdle /\ GetSpecsIdle /\ SignIdle
    /\ init

InitRelocate == InitUtil(RelocateInit /\ IndexIdle /\ EntryIdle)

InitIndex == InitUtil(RelocateIdle /\ IndexInit /\ EntryIdle)

InitEntry == InitUtil(RelocateIdle /\ IndexIdle /\ EntryInit)

SpecBuild == InitBuild /\ [][BuildNext]_vars

SpecExtract == InitExtract /\ [][ExtractNext]_vars

SpecRebuild == InitRebuild /\ [][RebuildNext]_vars

SpecDownload == InitDownload /\ [][DownloadNext]_vars

\* the two operations that validate their spec, each from its calls
InitValidate == InitBuild \/ InitRebuild

ValidateNext == BuildNext \/ RebuildNext

SpecValidate == InitValidate /\ [][ValidateNext]_vars

\* concurrent packaging
InitRace == RaceInit /\ ExtractIdle /\ RebuildIdle /\ FetchIdle

SpecRace == InitRace /\ [][BuildNext]_vars

\* packaging followed by the installation of the published bundle
RoundTripNext == BuildNext \/ RoundTripInstall \/ ExtractNext

\* build_tarball of a concrete spec to a mirror that holds nothing of it
InitRoundTrip ==
    /\ InitBuild
    /\ mirror = [archive |-> None, specfile |-> None, index |-> None]
    /\ bt[1].call.concrete
    /\ ~bt[1].call.allow_root /\ ~bt[1].call.regenerate_index

SpecRoundTrip == InitRoundTrip /\ [][RoundTripNext]_vars

SpecGetSpecs == InitGetSpecs /\ [][GetSpecsNext]_vars

SignNext == SignTarball

SpecSign == InitSign /\ [][SignNext]_vars

SpecRelocate == InitRelocate /\ [][RelocateNext]_vars

SpecIndex == InitIndex /\ [][IndexNext]_vars

SpecEntry == InitEntry /\ [][EntryNext]_vars

Init ==
    \/ InitBuild
    \/ InitExtract
    \/ InitRebuild
    \/ InitDownload
    \/ InitGetSpecs
    \/ InitSign
    \/ InitRelocate
    \/ InitIndex
    \/ InitEntry

Next ==
    \/ BuildNext
    \/ ExtractNext
    \/ RebuildNext
    \/ DownloadNext
    \/ GetSpecsNext
    \/ SignNext
    \/ RelocateNext
    \/ IndexNext
    \/ EntryNext

Spec == Init /\ [][Next]_vars

(***************************************************************************)
(* Properties of build_tarball (checked under SpecBuild).                  *)
(***************************************************************************)
BtEnded(p) == bt[p].pc = "done"

\* the mirror held the archive or the metadata file when the call was made
ExistedBefore(p) ==
    bt[p].remote0.archive.present \/ bt[p].remote0.specfile.present

\* the archive and the metadata file on the mirror are those process p pushed
NewPublished(p) ==
    /\ mirror.archive.present /\ mirror.archive.by = p
    /\ mirror.specfile.present /\ mirror.specfile.by = p

\* C1: a call of build_tarball with force unset, made when the remote
\* archive or the remote metadata file exists, never gets past the overwrite
\* guards, and ends with NoOverwriteException (the guard is reached by every
\* call that passes the validation of its spec; a non-concrete spec ends the
\* call before, with ValueError); at no point of the call has remove_url or
\* push_to_url been called, and the mirror holds what it held before.
C1_NoForceFailsBeforeRemoteMutation ==
    \A p \in Procs :
       (bt[p].pc # "idle" /\ ~bt[p].call.force /\ ExistedBefore(p)) =>
          /\ bt[p].remote_ops = <<>>
          /\ mirror.archive = bt[p].remote0.archive
          /\ mirror.specfile = bt[p].remote0.specfile
          /\ ~mirror.index.present
          /\ bt[p].pc \in {"start", "setup", "guard_archive",
                           "guard_specfile", "done"}
          /\ BtEnded(p) =>
                bt[p].result = IF bt[p].call.concrete
                               THEN "NoOverwriteException"
                               ELSE "ValueError"

\* C1 witness: only the metadata file existed, and the second guard raised
C1_Witness ==
    /\ BtEnded(1) /\ ~bt[1].call.force
    /\ ~bt[1].remote0.archive.present /\ bt[1].remote0.specfile.present
    /\ bt[1].result = "NoOverwriteException"
    /\ mirror.specfile = PriorSpecfile

GateSeen(g) == \E i \in DOMAIN xt.gates : xt.gates[i] = g

\* the payload of the bundle is not the one its metadata records
ChecksumMismatch ==
    checksum_tarball(xt.bundle.payload)
        # xt.bundle.meta.binary_cache_checksum.hash

\* the metadata record a relative prefix, and it is not the local one
RecordsRelativePrefix ==
    /\ HasKey(xt.bundle.meta, "buildinfo")
    /\ HasKey(xt.bundle.meta.buildinfo, "relative_prefix")

LayoutDiffers ==
    /\ RecordsRelativePrefix
    /\ xt.bundle.meta.buildinfo.relative_prefix # target.rel

\* the bundle carries a signature made with a trusted key over its metadata
SigValid ==
    /\ xt.bundle.sig.present
    /\ xt.bundle.sig.body.key \in TrustedKeys
    /\ xt.bundle.sig.body.doc = xt.bundle.meta

\* nothing of the bundle has reached the prefix
NothingInstalled ==
    /\ ~xt.extracted /\ ~xt.copied /\ ~xt.workdir.present
    /\ prefix \in {None, xt.prefix0}

\* C3 as claimed: when extract_tarball ends in a trust error (signature
\* file missing, signature not verifying, checksum mismatch), the install
\* prefix is as it was before the call, whatever the options.
C3_TrustErrorLeavesPrefixAsBefore ==
    (xt.pc = "done" /\ xt.failed_at \in {"signature", "checksum"}) =>
       prefix = xt.prefix0

\* C4: a bundle whose payload does not have the checksum its metadata
\* record is never extracted and nothing of it is copied into the prefix;
\* the checksum comparison, once made, ends the call with
\* NoChecksumException and the temp directory removed.
C4_ChecksumMismatchNeverInstalls ==
    (xt.pc # "idle" /\ ChecksumMismatch) =>
       /\ NothingInstalled
       /\ xt.result # "ok"
       /\ GateSeen("checksum") =>
             /\ xt.pc = "done"
             /\ xt.result = "NoChecksumException"
             /\ xt.failed_at = "checksum"
             /\ ~GateSeen("layout")
             /\ ~xt.tmpdir

\* C4 witness: the comparison was made on a changed payload, after force
\* had removed an earlier installation
C4_Witness ==
    /\ xt.pc = "done" /\ ChecksumMismatch /\ GateSeen("checksum")
    /\ xt.result = "NoChecksumException"
    /\ xt.prefix0.present /\ ~prefix.present

\* C5: a bundle whose metadata record a relative prefix other than the
\* local one (spec.prefix relative to the layout root) is never extracted
\* and nothing of it is copied into the prefix, for every root and every
\* path below it; the layout check, once made, ends the call with
\* NewLayoutException and the temp directory removed.
C5_LayoutMismatchNeverInstalls ==
    (xt.pc # "idle" /\ LayoutDiffers) =>
       /\ NothingInstalled
       /\ xt.result # "ok"
       /\ GateSeen("layout") =>
             /\ xt.pc = "done"
             /\ xt.result = "NewLayoutException"
             /\ xt.failed_at = "layout"
             /\ ~prefix.present
             /\ ~xt.tmpdir

\* C5 witness: the layout check was made and failed, on equal roots
C5_Witness ==
    /\ xt.pc = "done" /\ LayoutDiffers /\ GateSeen("layout")
    /\ xt.result = "NewLayoutException"
    /\ xt.bundle.manifest.buildpath = target.root

\* C6 as claimed: when the layout check is made on a host whose layout root
\* is not the root recorded at packaging time, the call ends with
\* NewLayoutException and the prefix is never created.
C6_OtherRootFails ==
    (GateSeen("layout") /\ xt.bundle.manifest.buildpath # target.root) =>
       /\ xt.result = "NewLayoutException"
       /\ ~xt.copied

\* C6 as amended: the layout check fails, with NewLayoutException and no
\* prefix created, exactly when the metadata record a relative prefix other
\* than the local one; the roots are not compared, so a bundle packaged
\* under another root and the same layout below it passes the check.
C6_LayoutCheckComparesRelativePrefixOnly ==
    GateSeen("layout") =>
       /\ (xt.result = "NewLayoutException") <=> LayoutDiffers
       /\ (xt.failed_at = "layout") <=> LayoutDiffers
       /\ LayoutDiffers => (~xt.copied /\ ~prefix.present)
       /\ ~LayoutDiffers => xt.pc # "layout"

\* C6 witness: packaged under another root with the same layout below it,
\* the bundle passed the check and was installed
C6_Witness ==
    /\ GateSeen("layout")
    /\ xt.bundle.manifest.buildpath # target.root
    /\ RecordsRelativePrefix /\ ~LayoutDiffers
    /\ xt.pc = "done" /\ xt.result = "ok" /\ prefix.present

\* the call ended at the signature gate: no checksum was compared, nothing
\* extracted, no prefix
EndedAtSignature ==
    /\ xt.pc = "done" /\ xt.failed_at = "signature"
    /\ ~GateSeen("checksum") /\ ~GateSeen("layout")
    /\ ~xt.extracted /\ ~xt.copied /\ ~prefix.present

\* C7: with unsigned=false, once the signature gate is evaluated: a bundle
\* without signature file ends the call with NoVerifyException, a bundle
\* whose signature does not verify ends it (tty.die), both before the
\* checksum check, the extraction and any population of the prefix; a
\* signature by a trusted key over the bundle's metadata passes the gate,
\* and the call goes on to the checksum check.
C7_SignatureGate ==
    (~xt.call.unsigned /\ GateSeen("signature")) =>
       /\ ~xt.bundle.sig.present =>
             (EndedAtSignature /\ xt.result = "NoVerifyException")
       /\ (xt.bundle.sig.present /\ ~SigValid) =>
             (EndedAtSignature /\ xt.result = "SystemExit")
       /\ SigValid =>
             /\ xt.failed_at # "signature"
             /\ xt.pc = "checksum" \/ GateSeen("checksum")

\* C7 witness: no signature file, and force had removed an earlier
\* installation before the gate failed
C7_Witness ==
    /\ ~xt.call.unsigned /\ ~xt.bundle.sig.present
    /\ xt.pc = "done" /\ xt.result = "NoVerifyException"
    /\ xt.call.force /\ xt.prefix0.present

(***************************************************************************)
(* Properties of needs_rebuild and check_specs_against_mirrors (checked    *)
(* under SpecRebuild).                                                     *)
(***************************************************************************)
\* needs_rebuild has been called, and read the mirror
MirrorRead == ck.calls # {} /\ ck.last.response.kind # "none"

\* the remote spec.yaml has a line full_hash: h
RecordsFullHash(contents, h) ==
    \E i \in DOMAIN contents : contents[i] = <<"full_hash", h>>

\* C8: for a concrete spec whose metadata file was fetched and is not
\* empty, needs_rebuild returns false exactly when the remote metadata
\* record the spec's own full hash, and true when they record another or
\* none, for either value of rebuild_on_errors.
C8_RebuildIffFullHashDiffers ==
    (MirrorRead /\ ck.last.spec.concrete /\ ck.last.response.kind = "ok"
     /\ ck.last.response.contents # <<>>) =>
       /\ ck.last.out.exc = "none"
       /\ ck.last.out.value = FALSE
          <=> RecordsFullHash(ck.last.response.contents,
                              ck.last.spec.full_hash)

\* C8 witness: the full hash matched and rebuild_on_errors was set
C8_Witness ==
    /\ MirrorRead /\ ck.rebuild_on_errors
    /\ ck.last.response.kind = "ok"
    /\ RecordsFullHash(ck.last.response.contents, ck.last.spec.full_hash)
    /\ ck.last.out = Returns(FALSE)

\* C9: when the fetch of the metadata file fails (URLError) or returns
\* empty content, needs_rebuild returns rebuild_on_errors and raises
\* nothing.
C9_FetchErrorReturnsFallback ==
    (MirrorRead /\ (\/ ck.last.response.kind = "URLError"
                 \/ ck.last.response = Fetched(<<>>))) =>
       ck.last.out = Returns(ck.rebuild_on_errors)

\* C9 witness: the fetch failed and the fallback was "do not rebuild"
C9_Witness ==
    /\ MirrorRead /\ ck.last.response.kind = "URLError"
    /\ ~ck.rebuild_on_errors /\ ck.last.out = Returns(FALSE)

\* C10: check_specs_against_mirrors, when it returns, has asked
\* needs_rebuild about every spec on every mirror, and returns 1 if one of
\* the answers was true and 0 if none was.
C10_ReturnsOneIffSomeSpecStale ==
    (ck.pc = "done" /\ ck.result = "returned") =>
       /\ ck.calls = (1..ck.mirrors) \X (1..Len(ck.specs))
       /\ ck.stale \subseteq ck.calls
       /\ ck.ret = IF ck.stale # {} THEN 1 ELSE 0

\* C10 witness: a spec was stale on the first of two mirrors only
C10_Witness ==
    /\ ck.pc = "done" /\ ck.result = "returned" /\ ck.ret = 1
    /\ ck.mirrors = 2
    /\ \E j \in 1..Len(ck.specs) : <<1, j>> \in ck.stale
    /\ \A j \in 1..Len(ck.specs) : <<2, j>> \notin ck.stale

\* the specs, in the order given, that were found stale on mirror m
RECURSIVE StaleOn(_, _)
StaleOn(m, n) ==
    IF n = 0 THEN <<>>
    ELSE IF <<m, n>> \in ck.stale THEN Append(StaleOn(m, n - 1), n)
    ELSE StaleOn(m, n - 1)

\* the pairs (mirror, spec) the loops have gone through so far
LoopedSoFar ==
    {c \in (1..ck.mirrors) \X (1..Len(ck.specs)) :
        c[1] < ck.m \/ (c[1] = ck.m /\ c[2] <= ck.j)}

\* the mirrors whose loop over the specs has been completed
MirrorsDone ==
    {m \in 1..ck.mirrors : m < ck.m \/ (m = ck.m /\ ck.pc # "specs")}

\* C11: check_specs_against_mirrors asks needs_rebuild about every spec on
\* every mirror in turn, a stale spec or a stale mirror never ending a loop;
\* the report holds an entry for a mirror exactly when a spec was stale on
\* it, the entry listing exactly those specs in the order given; and the
\* report written to the output file is that report.
C11_ReportListsExactlyStaleSpecs ==
    (ck.pc # "idle" /\ ck.result # "ValueError") =>
       /\ ck.calls = LoopedSoFar
       /\ DOMAIN ck.rebuilds =
              {m \in MirrorsDone : \E c \in ck.stale : c[1] = m}
       /\ \A m \in DOMAIN ck.rebuilds :
              ck.rebuilds[m] = StaleOn(m, Len(ck.specs))
       /\ ck.pc = "done" =>
              /\ MirrorsDone = 1..ck.mirrors
              /\ ck.output_file => ck.written = File(ck.rebuilds)

\* C11 witness: of two mirrors and two specs, the first mirror had the
\* first spec stale and the second spec matching, a stale spec ending
\* nothing; the second mirror had none stale and is not in the report
C11_Witness ==
    /\ ck.pc = "done" /\ ck.result = "returned"
    /\ ck.mirrors = 2 /\ Len(ck.specs) = 2
    /\ ck.stale = {<<1, 1>>}
    /\ DOMAIN ck.rebuilds = {1} /\ ck.rebuilds[1] = <<1>>
    /\ ck.written = File(ck.rebuilds)

(***************************************************************************)
(* Properties of download_tarball (checked under SpecDownload).            *)
(***************************************************************************)
\* the mirrors of the collection that serve the spec's .spack file
Serving == {i \in DOMAIN dl.mirrors : dl.mirrors[i]}

BtNothingDone(p) ==
    /\ ~bt[p].tmpdir /\ ~bt[p].tarfile_dir /\ ~bt[p].scratch
    /\ bt[p].workdir = None /\ bt[p].buildinfo = None
    /\ bt[p].tarfile = None /\ bt[p].specfile = None
    /\ bt[p].ascfile = None /\ bt[p].spackfile = None
    /\ bt[p].queries = <<>> /\ bt[p].remote_ops = <<>>
    /\ mirror.archive = bt[p].remote0.archive
    /\ mirror.specfile = bt[p].remote0.specfile
    /\ mirror.index = None

\* C13: build_tarball called with a non-concrete spec raises ValueError as
\* its first step: the call is never anywhere but at its start or ended with
\* ValueError, and no temp directory exists, no local file has been written,
\* the mirror has neither been asked nor changed; and only a non-concrete
\* spec ends it so.  needs_rebuild called with a non-concrete spec raises
\* ValueError without reading the mirror, which ends
\* check_specs_against_mirrors with nothing written; and only a
\* non-concrete spec does.
C13_NonConcreteFailsFirst ==
    /\ \A p \in Procs :
          /\ (bt[p].pc # "idle" /\ ~bt[p].call.concrete) =>
                /\ bt[p].pc \in {"start", "done"}
                /\ BtEnded(p) => bt[p].result = "ValueError"
                /\ BtNothingDone(p)
          /\ bt[p].result = "ValueError" => ~bt[p].call.concrete
    /\ (ck.calls # {} /\ ~ck.last.spec.concrete) =>
          /\ ck.last.out.exc = "ValueError"
          /\ ck.last.response = NotFetched
          /\ ck.pc = "done" /\ ck.result = "ValueError"
          /\ ck.written = None
    /\ ck.result = "ValueError" => ~ck.last.spec.concrete

\* C13 witness: build_tarball ended with ValueError on a mirror that held
\* an earlier publication, with force set
C13_Witness ==
    /\ BtEnded(1) /\ bt[1].result = "ValueError" /\ bt[1].call.force
    /\ bt[1].remote0.archive = PriorArchive /\ mirror.archive = PriorArchive
    /\ BtNothingDone(1)

\* C14: extract_tarball called when the install prefix exists: without
\* force the call ends at its first step with NoOverwriteException, the
\* prefix as it was and no temp directory created; with force the prefix is
\* deleted before the temp directory is created, the call goes on with the
\* protocol, and what the prefix holds later is what the call copied.
\* NoOverwriteException ends no other call.
C14_ExistingPrefixNeedsForce ==
    /\ (xt.pc # "idle" /\ xt.prefix0.present /\ ~xt.call.force) =>
          /\ xt.pc \in {"start", "done"}
          /\ xt.pc = "done" =>
                (xt.result = "NoOverwriteException"
                 /\ xt.failed_at = "prefix")
          /\ prefix = xt.prefix0
          /\ ~xt.tmpdir /\ xt.gates = <<>>
          /\ xt.tarfile = None /\ xt.specfile = None /\ xt.workdir = None
    /\ (xt.pc \notin {"idle", "start"} /\ xt.prefix0.present
        /\ xt.call.force) =>
          /\ xt.result # "NoOverwriteException"
          /\ xt.pc = "mkdtemp" => (prefix = None /\ ~xt.tmpdir)
          /\ prefix.present => xt.copied
    /\ xt.result = "NoOverwriteException" =>
          (xt.prefix0.present /\ ~xt.call.force)

\* C14 witness: force deleted the existing prefix and the installation
\* went through to its end
C14_Witness ==
    /\ xt.pc = "done" /\ xt.result = "ok"
    /\ xt.call.force /\ xt.prefix0 = OldInstall
    /\ prefix.present /\ prefix # OldInstall

(***************************************************************************)
(* Properties of the round trip (checked under SpecRoundTrip).             *)
(***************************************************************************)
\* the installing host has the layout of the packaging host, and either
\* skips the verification or the bundle is signed with a key it trusts
RoundTripCase ==
    /\ xt.pc # "idle"
    /\ target = [root |-> host.root, rel |-> host.rel]
    /\ \/ xt.call.unsigned
       \/ xt.bundle.sig.present /\ xt.bundle.sig.body.key \in TrustedKeys

\* the metadata of a bundle record the checksum of the bundle's payload
ChecksumRecorded(bundle) ==
    bundle.meta.binary_cache_checksum.hash = checksum_tarball(bundle.payload)

\* the bundle built by a process, in its staging tree or on the mirror
BundlesBuilt ==
    {bt[p].spackfile.body : p \in {q \in Procs : bt[q].spackfile.present}}
    \cup {mirror.archive.body : a \in {mirror.archive} \ {None, PriorArchive}}

\* the round trip passes the three gates
GatesPassed ==
    /\ xt.failed_at \notin {"signature", "checksum", "layout"}
    /\ xt.result \notin {"NoVerifyException", "NoChecksumException",
                         "NewLayoutException"}

\* C15 as claimed: the round trip passes the signature, checksum and layout
\* gates, the installation that returns leaves in the prefix the same set
\* of files as the original install tree, and the checksum recorded in the
\* metadata of a bundle is the checksum of its payload.
C15_RoundTripSameFiles ==
    /\ \A b \in BundlesBuilt : ChecksumRecorded(b)
    /\ RoundTripCase =>
          /\ GatesPassed
          /\ xt.result = "ok" => prefix = File(host.tree)

\* C15 as amended: the round trip passes the signature, checksum and layout
\* gates, the installation that returns leaves in the prefix the files of
\* the original install tree and the buildinfo file written at packaging
\* (.spack/binary_distribution), whatever the prefix held before, and the
\* checksum recorded in the metadata of a bundle is the checksum of its
\* payload.
C15_RoundTripFilesAndBuildinfo ==
    /\ \A b \in BundlesBuilt : ChecksumRecorded(b)
    /\ RoundTripCase =>
          /\ GatesPassed
          /\ xt.bundle.manifest = BuildinfoOf(host, bt[1].call.rel)
          /\ xt.result = "ok" =>
                /\ prefix = File(host.tree \cup {BuildinfoFile})
                /\ xt.gates = IF xt.call.unsigned
                              THEN <<"checksum", "layout">>
                              ELSE <<"signature", "checksum", "layout">>

\* C15 witness: packaged signed, installed with verification over an
\* earlier installation, the prefix holds the tree and the buildinfo file
C15_Witness ==
    /\ RoundTripCase /\ ~bt[1].call.unsigned /\ ~xt.call.unsigned
    /\ xt.pc = "done" /\ xt.result = "ok"
    /\ xt.prefix0 = OldInstall
    /\ host.tree # Files
    /\ prefix = File(host.tree \cup {BuildinfoFile})

(***************************************************************************)
(* Properties of sign_tarball (checked under SpecSign).                    *)
(***************************************************************************)
\* the call has written a signature of the spec file with key k
SignedWith(k) ==
    sg.result = "ok" /\ sg.asc = File(GpgSign(k, sg.doc))

\* C16: sign_tarball, once ended (gpg2 installed; without it every call
\* ends with NoGpgException): with an explicit key, the call never fails on
\* the choice of the key, and what it signs it signs with that key; with
\* no explicit key, it uses the one key of Gpg.signing_keys() when there is
\* exactly one, ends with NoKeyException when there is none and with
\* PickKeyException when there are several; a call that ends with either
\* exception has signed nothing, and the .asc file is as it was before the
\* call (none, if there was none).  A call that signs is one whose key is
\* chosen and that finds no .asc file or is forced.
C16_SigningKeySelection ==
    (sg.pc = "done" /\ sg.has_gnupg2) =>
       /\ sg.key # NoKeyArg =>
             /\ sg.result \notin {"NoKeyException", "PickKeyException"}
             /\ sg.result = "ok" => SignedWith(sg.key)
       /\ (sg.key = NoKeyArg /\ Cardinality(sg.signing_keys) = 1) =>
             /\ sg.result \notin {"NoKeyException", "PickKeyException"}
             /\ sg.result = "ok" =>
                   \E k \in sg.signing_keys : SignedWith(k)
       /\ (sg.key = NoKeyArg /\ sg.signing_keys = {}) =>
             sg.result = "NoKeyException"
       /\ (sg.key = NoKeyArg /\ Cardinality(sg.signing_keys) > 1) =>
             sg.result = "PickKeyException"
       /\ sg.result \in {"NoKeyException", "PickKeyException"} =>
             sg.asc = sg.asc0
       /\ sg.result = "ok" <=>
             /\ sg.key # NoKeyArg \/ Cardinality(sg.signing_keys) = 1
             /\ ~sg.asc0.present \/ sg.force

\* C16 witness: an explicit key that is not the only default key was used
C16_Witness ==
    /\ sg.pc = "done" /\ sg.result = "ok"
    /\ sg.key = 2 /\ sg.signing_keys = {1}
    /\ SignedWith(2) /\ sg.asc0 = OldAsc

(***************************************************************************)
(* Properties of get_specs (checked under SpecGetSpecs).                   *)
(***************************************************************************)
\* C17 as claimed: a call of get_specs made after a discovery has been
\* completed in the process contacts no mirror and returns the result of
\* that first discovery, whatever that result and whatever its force.
C17_LaterCallsReturnFirstDiscovery ==
    (gs.pc # "idle" /\ gs.calls > 0 /\ gs.had_first) =>
       /\ ~gs.contacted
       /\ gs.ret.present => gs.ret.body = gs.first.body

(***************************************************************************)
(* Properties of the end of extract_tarball (checked under SpecExtract).   *)
(***************************************************************************)
\* C18: when relocate_package fails, which happens only after the payload
\* has been copied into the install prefix, extract_tarball ends with the
\* error (tty.die), the install prefix deleted as a whole and the temp
\* directory deleted with all it held: no ended call has failed in the
\* relocation and left a prefix.
C18_RelocationFailureRemovesPrefix ==
    (xt.pc = "done" /\ xt.failed_at = "relocate") =>
       /\ xt.copied /\ xt.extracted
       /\ xt.result = "SystemExit"
       /\ prefix = None
       /\ ~xt.tmpdir /\ xt.workdir = None
       /\ xt.tarfile = None /\ xt.specfile = None /\ xt.ascfile = None

\* C18 witness: the relocation failed on a tree that had been copied over
\* a prefix emptied by force
C18_Witness ==
    /\ xt.pc = "done" /\ xt.failed_at = "relocate"
    /\ xt.copied /\ xt.prefix0 = OldInstall /\ xt.call.force
    /\ prefix = None /\ ~xt.tmpdir

\* C19 as claimed: once extract_tarball has ended, on whatever path and at
\* whatever step after the creation of its temp directory, the temp
\* directory does not exist.
C19_TmpdirRemovedOnEveryExit ==
    (xt.pc = "done" /\ xt.failed_at # "prefix") =>
       /\ ~xt.tmpdir
       /\ xt.tarfile = None /\ xt.specfile = None /\ xt.workdir = None

(***************************************************************************)
(* Properties of the scratch directories of build_tarball (checked under   *)
(* SpecBuild).                                                             *)
(***************************************************************************)
\* C20 as claimed: when build_tarball has ended successfully, the temp
\* directory of the build_cache staging tree and the temp directory
\* created for the working copy of the install tree have both been
\* removed, with all they held.
C20_ScratchRemovedOnSuccess ==
    \A p \in Procs :
       (BtEnded(p) /\ bt[p].result = "ok") =>
          /\ ~bt[p].tmpdir /\ ~bt[p].tarfile_dir
          /\ bt[p].workdir = None
          /\ ~bt[p].scratch

\* the operations of process p on the mirror that were pushes
Pushes(p) ==
    {i \in DOMAIN bt[p].remote_ops : bt[p].remote_ops[i][1] = "push_to_url"}

\* C21: when the relocation step of build_tarball fails, for rel set
\* (make_package_relative) or not (make_package_placeholder), the call ends
\* fatally (tty.die) with the working copy, the build_cache staging
\* directories and the temp directory that holds them deleted, no tarball,
\* spec file or archive created, and nothing pushed to the mirror; and the
\* call dies on no other path.
C21_RelocationFailureCleansUp ==
    \A p \in Procs :
       (BtEnded(p) /\ bt[p].result = "die") =>
          /\ bt[p].workdir = None /\ bt[p].buildinfo = None
          /\ ~bt[p].tarfile_dir /\ ~bt[p].tmpdir
          /\ bt[p].tarfile = None /\ bt[p].specfile = None
          /\ bt[p].ascfile = None /\ bt[p].spackfile = None
          /\ Pushes(p) = {}
          /\ ~(mirror.archive.present /\ mirror.archive.by = p)
          /\ ~(mirror.specfile.present /\ mirror.specfile.by = p)
          /\ ~mirror.index.present
          /\ bt[p].queries = <<"archive", "specfile">>

\* C21 witness: make_package_relative failed in a forced call that had
\* removed the earlier publication
C21_Witness ==
    /\ BtEnded(1) /\ bt[1].result = "die"
    /\ bt[1].call.rel /\ bt[1].call.force
    /\ bt[1].remote0.archive = PriorArchive /\ mirror.archive = None
    /\ ~bt[1].tmpdir /\ bt[1].workdir = None

(***************************************************************************)
(* Properties of concurrent runs of build_tarball (checked under SpecRace).*)
(***************************************************************************)
\* process p, run without force, has gone through both overwrite guards
PastGuards(p) ==
    /\ bt[p].pc \notin {"idle", "start", "setup", "guard_archive",
                        "guard_specfile"}
    /\ bt[p].result \notin {"ValueError", "NoOverwriteException"}

\* C22: the overwrite guard of a run without force is a check made once,
\* before the run acts: the run goes past its guards exactly when it saw
\* neither the remote archive nor the remote metadata file at the moment of
\* each check, it ends with NoOverwriteException exactly when a check saw
\* one, and it never calls remove_url; nothing is checked again at the
\* pushes.  So two runs without force that both saw nothing both publish,
\* the later push overwriting the earlier one (the witness).
C22_GuardIsCheckedOnceBeforeActing ==
    \A p \in Procs :
       ~bt[p].call.force =>
          /\ PastGuards(p) => bt[p].seen = <<FALSE, FALSE>>
          /\ Pushes(p) # {} => bt[p].seen = <<FALSE, FALSE>>
          /\ \A i \in DOMAIN bt[p].remote_ops :
                bt[p].remote_ops[i][1] = "push_to_url"
          /\ bt[p].result = "NoOverwriteException" <=>
                (bt[p].seen # <<>> /\ bt[p].seen[Len(bt[p].seen)])
          /\ \A i \in 1..(Len(bt[p].seen) - 1) : ~bt[p].seen[i]

\* C22 witness: two runs without force on a mirror that held nothing, both
\* past their guards having seen nothing, both ended successfully; the
\* archive process 1 published has been overwritten by process 2, and the
\* metadata file on the mirror is the one process 1 pushed
C22_Witness ==
    /\ ~bt[1].call.force /\ ~bt[2].call.force
    /\ bt[1].remote0 = [archive |-> None, specfile |-> None]
    /\ bt[1].seen = <<FALSE, FALSE>> /\ bt[2].seen = <<FALSE, FALSE>>
    /\ BtEnded(1) /\ bt[1].result = "ok"
    /\ BtEnded(2) /\ bt[2].result = "ok"
    /\ mirror.archive.present /\ mirror.archive.by = 2
    /\ mirror.specfile.present /\ mirror.specfile.by = 1

(***************************************************************************)
(* Properties of the two pushes of build_tarball (checked under SpecBuild).*)
(***************************************************************************)
\* the position in the operations of process p on the mirror of its push
\* of a remote file, 0 when it has not made it
PushAt(p, field) ==
    LET at == {i \in DOMAIN bt[p].remote_ops :
                  bt[p].remote_ops[i] = <<"push_to_url", field>>}
    IN IF at = {} THEN 0 ELSE Min(at)

\* C23: a run of build_tarball calls the push of the metadata file only
\* after its push of the archive, and only when that push has succeeded;
\* in no state of the run is the metadata file of the run on the mirror
\* without the archive of the run; between the two pushes, and after a
\* metadata push that failed (the spec file is still in the staging
\* tree), the mirror holds the new archive and no metadata file at all
\* (the guards have seen to it that none was left).
C23_ArchiveBeforeMetadata ==
    \A p \in Procs :
       /\ PushAt(p, "specfile") # 0 =>
             /\ PushAt(p, "archive") # 0
             /\ PushAt(p, "archive") < PushAt(p, "specfile")
             /\ mirror.archive.present /\ mirror.archive.by = p
       /\ (mirror.specfile.present /\ mirror.specfile.by = p) =>
             (mirror.archive.present /\ mirror.archive.by = p)
       /\ (\/ bt[p].pc = "push_specfile"
           \/ /\ BtEnded(p) /\ bt[p].result = "RemoteError"
              /\ PushAt(p, "specfile") # 0 /\ bt[p].specfile.present) =>
             /\ mirror.archive.present /\ mirror.archive.by = p
             /\ ~mirror.specfile.present

\* C23 witness: on a mirror that held neither file, the push of the
\* metadata file failed after the archive had been pushed
C23_Witness ==
    /\ bt[1].remote0 = [archive |-> None, specfile |-> None]
    /\ BtEnded(1) /\ bt[1].result = "RemoteError"
    /\ bt[1].remote_ops = << <<"push_to_url", "archive">>,
                            <<"push_to_url", "specfile">> >>
    /\ mirror.archive.present /\ mirror.archive.by = 1
    /\ ~mirror.specfile.present

\* the installed prefix is as it was when the call was made
LiveUntouched(p) ==
    /\ host.tree = bt[p].live0.tree
    /\ host.rewritten = bt[p].live0.rewritten

\* C24: build_tarball never changes the installed prefix: at every step of
\* every call, and however the call ends, the prefix holds the files it held
\* when the call was made and none of them has been rewritten; the manifest
\* file is a member of the working copy only, never of the prefix, and the
\* files the relocation step rewrites are files of the working copy.
C24_LiveTreeNeverMutated ==
    \A p \in Procs :
        bt[p].pc # "idle" =>
            /\ LiveUntouched(p)
            /\ BuildinfoFile \notin host.tree
            /\ bt[p].pc \in {"relocate", "tar"} /\ bt[p].result = "none" =>
                   BuildinfoFile \in bt[p].workdir.body
            /\ bt[p].relocated # {} => bt[p].relocated = bt[p].live0.tree

\* a call published a bundle whose manifest was written and whose files
\* were rewritten in the working copy, the prefix being as it was
C24_Witness ==
    \E p \in Procs :
        /\ bt[p].result = "ok"
        /\ bt[p].relocated # {}
        /\ mirror.archive.present
        /\ mirror.archive.by = p
        /\ \E i \in DOMAIN mirror.archive.body.payload :
              mirror.archive.body.payload[i] = BuildinfoFile
        /\ LiveUntouched(p)
        /\ host.tree # {}

(***************************************************************************)
(* Properties of relocate_package (checked under SpecRelocate).            *)
(***************************************************************************)
\* the manifest's relative_rpaths flag is there and true
FlagTrue == HasKey(rp.buildinfo, "relative_rpaths")
                /\ rp.buildinfo.relative_rpaths

\* the files of a list of the manifest, as paths below the prefix
Listed(names) == {rp.workdir \o <<f>> : f \in names}

\* the text files listed whose name does not end in '~'
ListedText ==
    Listed({f \in rp.buildinfo.relocate_textfiles : f[Len(f)] # "~"})

ListedLinks ==
    IF HasKey(rp.buildinfo, "relocate_links")
    THEN Listed(rp.buildinfo.relocate_links) ELSE {}

\* the three calls in the claim's order, each with the files it is given
CallOrder ==
    <<[prim |-> {"relocate_text"}, path_names |-> ListedText],
      [prim |-> {"relocate_macho_binaries", "relocate_elf_binaries"},
       path_names |-> Listed(rp.buildinfo.relocate_binaries)],
      [prim |-> {"relocate_links"}, path_names |-> ListedLinks]>>

\* C25: with the manifest's relative_rpaths flag true relocate_package
\* calls no relocation routine and no file of the prefix is rewritten,
\* whatever the manifest lists.  With the flag false or absent the calls it
\* makes are, in this order, the text relocation of the listed text files
\* whose name does not end in '~', the binary relocation of the listed
\* binaries and the link relocation of the listed links, each from the
\* manifest's build root to the local layout root (the text relocation
\* also from the recorded to the local package-manager prefix); a call
\* that returns normally has made all three, and a call that raised has
\* made them up to the one that raised.
C25_RelocatePackageByFlag ==
    rp.pc # "idle" =>
        /\ FlagTrue => rp.ops = <<>> /\ rp.rewritten = {}
        /\ FlagTrue /\ rp.pc = "done" => rp.result = "ok"
        /\ ~FlagTrue =>
              /\ Len(rp.ops) <= 3
              /\ \A n \in DOMAIN rp.ops :
                    /\ rp.ops[n].prim \in CallOrder[n].prim
                    /\ rp.ops[n].path_names = CallOrder[n].path_names
                    /\ rp.ops[n].old = rp.buildinfo.buildpath
                    /\ rp.ops[n].new = rp.new_path
              /\ Len(rp.ops) >= 1 =>
                    /\ rp.ops[1].newprefix = rp.new_prefix
                    /\ rp.ops[1].oldprefix =
                           IF HasKey(rp.buildinfo, "spackprefix")
                           THEN rp.buildinfo.spackprefix
                           ELSE NotInBuildinfo
              /\ rp.result = "ok" =>
                    /\ Len(rp.ops) = 3
                    /\ rp.rewritten = UNION {CallOrder[n].path_names :
                                                n \in 1..3}
              /\ rp.result = "raise" => Len(rp.ops) >= 1
              /\ \A q \in rp.rewritten :
                    q \in Listed(rp.buildinfo.relocate_textfiles) =>
                        q[Len(q)][Len(q[Len(q)])] # "~"

\* a call without the flag returned normally: it made the three calls and
\* rewrote a listed text file, the listed binary and the listed link,
\* leaving the listed backup file alone
C25_Witness ==
    /\ rp.pc = "done" /\ rp.result = "ok"
    /\ ~HasKey(rp.buildinfo, "relative_rpaths")
    /\ rp.buildinfo.relocate_textfiles = TextNames
    /\ rp.buildinfo.relocate_binaries = BinaryNames
    /\ HasKey(rp.buildinfo, "relocate_links")
    /\ Len(rp.ops) = 3
    /\ rp.rewritten = Listed({<<"a">>, <<"b">>, <<"l">>})
    /\ rp.new_path # rp.buildinfo.buildpath

(***************************************************************************)
(* Properties of generate_package_index (checked under SpecIndex).         *)
(***************************************************************************)
\* the entries listed at cache_prefix whose name ends in '.yaml' or '.key'
Linkable ==
    {entry \in ix.listing :
        Len(entry) >= 2 /\ entry[Len(entry)] \in {"yaml", "key"}}

\* C26: a generate_package_index call that returns leaves at
\* <cache_prefix>/index.html a page that links exactly the entries listed
\* at cache_prefix whose name ends in '.yaml' or '.key', whatever page was
\* there before; and however the call ends (returning, or raising because
\* the listing or the push failed) the temp directory it made is removed.
\* A call that raised leaves the page at cache_prefix as it was.
C26_IndexPublishedTempRemoved ==
    ix.pc = "done" =>
        /\ ix.had_tmpdir /\ ~ix.tmpdir /\ ~ix.index_html.present
        /\ ix.result \in {"ok", "ListError", "PushError"}
        /\ ix.result = "ok" =>
              ix.index.present /\ ix.index.body = Linkable
        /\ ix.result # "ok" => ix.index = ix.index0

\* a call returned: an earlier page is replaced by one that links the
\* metadata file and the key listed and leaves out the other entries
C26_Witness ==
    /\ ix.pc = "done" /\ ix.result = "ok"
    /\ ix.index0.present /\ ix.index # ix.index0
    /\ ix.listing = Entries
    /\ ix.index.body = {<<"a", "spec", "yaml">>, <<"k", "key">>}
    /\ ~ix.tmpdir

(***************************************************************************)
(* Properties of download_buildcache_entry (checked under SpecEntry).      *)
(***************************************************************************)
\* the descriptions marked required
Required == {j \in DOMAIN be.descriptions : be.descriptions[j]}

\* every required description was fetched successfully on mirror m
AllRequiredFetched(m) ==
    \A j \in Required :
        \E n \in DOMAIN be.fetches : be.fetches[n] = <<m, j, TRUE>>

\* the n-th fetch of the call was of a required description and failed
RequiredFailed(n) ==
    ~be.fetches[n][3] /\ be.descriptions[be.fetches[n][2]]

\* C27: a download_buildcache_entry call that returns returns True if and
\* only if on some mirror of the collection every required description was
\* fetched successfully, which is the case exactly when some mirror serves
\* every required description.  The fetches follow one another so: after a
\* failed fetch of a required description the next fetch is of the first
\* description on the next mirror; after any other fetch (a success, or a
\* failure of a description that is not required) the next is of the next
\* description on the same mirror.  When True is returned the mirror
\* worked on is the first that serves every required description and no
\* later mirror has been contacted.
C27_TrueIffSomeMirrorServesRequired ==
    /\ \A n \in DOMAIN be.fetches :
          /\ be.fetches[n][1] <= be.i
          /\ n < Len(be.fetches) =>
                be.fetches[n + 1] [1] =
                    IF RequiredFailed(n) THEN be.fetches[n][1] + 1
                    ELSE be.fetches[n][1]
          /\ n < Len(be.fetches) =>
                be.fetches[n + 1] [2] =
                    IF RequiredFailed(n) THEN 1 ELSE be.fetches[n][2] + 1
    /\ be.result = "returned" =>
          /\ be.ret <=> \E m \in DOMAIN be.mirrors : AllRequiredFetched(m)
          /\ be.ret <=> \E m \in DOMAIN be.mirrors :
                           Required \subseteq be.mirrors[m]
          /\ be.ret =>
                /\ AllRequiredFetched(be.i)
                /\ \A m \in 1..(be.i - 1) :
                      ~(Required \subseteq be.mirrors[m])
          /\ ~be.ret => be.i = Len(be.mirrors)

\* True is returned from the second of three mirrors: the first failed the
\* required description, the second failed only the one that is not
\* required, the third has not been contacted
C27_Witness ==
    /\ be.result = "returned" /\ be.ret
    /\ be.descriptions = <<FALSE, TRUE>>
    /\ Len(be.mirrors) = 3
    /\ be.fetches = <<<<1, 1, TRUE>>, <<1, 2, FALSE>>,
                      <<2, 1, FALSE>>, <<2, 2, TRUE>>>>

\* C28: when the metadata of the bundle have no buildinfo section, or no
\* relative_prefix in it, extract_tarball never ends with
\* NewLayoutException: the layout check, once made, passes whatever the
\* local layout is and whatever layout the bundle was packaged under, and
\* the call goes on to the extraction of the payload.  No gate stands
\* between such a bundle and its installation once the signature and the
\* checksum have passed: a call that has made the layout check ends with
\* the bundle installed in the prefix, unless the extraction, the copy or
\* the relocation that follow the gates fail.
C28_UnrecordedPrefixPassesLayout ==
    (xt.pc # "idle" /\ ~RecordsRelativePrefix) =>
       /\ xt.result # "NewLayoutException"
       /\ xt.failed_at # "layout"
       /\ (GateSeen("layout") /\ xt.pc = "done") =>
             \/ /\ xt.result = "ok"
                /\ xt.extracted /\ xt.copied
                /\ prefix.present
             \/ xt.failed_at \in {"payload", "install", "relocate"}

\* a signed bundle without a buildinfo section, packaged under another
\* relative prefix, passed the three gates and is installed
C28_Witness ==
    /\ xt.pc = "done" /\ xt.result = "ok"
    /\ ~HasKey(xt.bundle.meta, "buildinfo")
    /\ xt.bundle.manifest.relative_prefix # target.rel
    /\ xt.gates = <<"signature", "checksum", "layout">>
    /\ prefix.present

=============================================================================
